---- MODULE Spec2Model ----
(***************************************************************************)
(* Page replacement engine of the buffer pool: the ARC replacer            *)
(* (src/unnamed/part_000, arc_replacer.cpp) and the CLOCK replacer         *)
(* (src/src/buffer/clock_replacer.cpp, and its variant                     *)
(* src/unnamed/part_001).                                                  *)
(*                                                                         *)
(* Every public operation takes the replacer's latch on entry and holds it *)
(* to its exit, so with one caller each operation is one atomic action     *)
(* (Spec, ClockSpec, ClockBuildsSpec).  ThreadsSpec has several callers    *)
(* and the latch itself.                                                   *)
(*                                                                         *)
(* Lists: a std::list is a sequence whose index 1 is the front (the MRU    *)
(* end, where push_front inserts) and whose last index is the back (the    *)
(* LRU end).  A stored list iterator (list_iter_, ghost_iter_) is the      *)
(* current position of the node it names; positions of the other handles   *)
(* of the same list are shifted whenever a node is inserted or erased, as  *)
(* a std::list keeps its iterators valid.  Position 0 is a handle whose    *)
(* node was erased (a dangling iterator).                                  *)
(*                                                                         *)
(* size_t: mru_target_size_ and curr_size_ are 64-bit unsigned.  2^64 does *)
(* not fit the checker's integers, so a size_t value v is held as the      *)
(* representative r of its residue class mod 2^64 with -2^63 < r < 2^63:   *)
(* r >= 0 is the value r, r < 0 is the value 2^64 + r (what 0 - 1 wraps    *)
(* to).  += and -= are exact on representatives; the unsigned comparison   *)
(* is SizeTLess.                                                           *)
(***************************************************************************)
EXTENDS Integers, Sequences, FiniteSets, TLC

\* ---- bounds of the model ----
\* largest capacity (num_frames) an ArcReplacer is constructed with
MaxFrames == 2
\* page ids presented by the caller are 0..MaxPageId
MaxPageId == 2
\* mru_target_size_ is explored up to this value ...
MaxTarget == 2
\* ... and down to this many steps below zero (wrapped)
MaxWrap == 1
\* the caller presents a page id recorded for another resident frame at most this often
MaxClash == 1
\* largest num_pages a ClockReplacer is constructed with
MaxClockPages == 3
\* largest capacity of an ArcReplacer whose caller names one frame more than it holds
MaxOverFrames == 1
\* ... and that caller makes no further call once the four lists hold this many entries
MaxOverEntries == 3
\* num_pages of the ClockReplacer of the basic scenario
BasicClockPages == 7

VARIABLES
    \* ---- ArcReplacer (arc_replacer.cpp) ----
    replacer_size_,     \* capacity N
    mru_,               \* T1: list of frame ids
    mfu_,               \* T2: list of frame ids
    mru_ghost_,         \* B1: list of page ids
    mfu_ghost_,         \* B2: list of page ids
    alive_map_,         \* frame id -> FrameStatus
    ghost_map_,         \* page id  -> FrameStatus
    mru_target_size_,   \* p (size_t)
    curr_size_,         \* number of evictable frames (size_t)
    arc_ret,            \* what the last ArcReplacer call returned
    aborted,            \* the process was terminated by undefined behaviour
    clash,              \* history: how often the caller presented a page id recorded for another resident frame
    last_set_false,     \* history: the frames whose last SetEvictable call that returned passed false
    last_call,          \* history: the last ArcReplacer call and the branch it took
    \* ---- ClockReplacer (clock_replacer.cpp) ----
    num_pages_,
    clock_hand_,
    reference_bits_,
    pinned_,
    current_size_,
    clock_ret,          \* what the last ClockReplacer call returned
    bounded_scan,       \* which clock_replacer.cpp is built: Victim's scan is bounded by num_pages_ or not
    ignored_call,       \* history: a Pin or Unpin with a frame id outside 0 .. num_pages_ - 1 was made
    script_pos,         \* history: how many calls of ClockScript the calls made so far have matched
    hand_advanced,      \* history: how often the last call advanced clock_hand_
    \* ---- the threads that call a replacer ----
    shared_replacer,    \* the replacer the callers share: "ArcReplacer" or "ClockReplacer"
    latch_,             \* its std::mutex latch_: the thread that holds it, or Unlocked
    pc                  \* per thread: the call it is in and how far it got, or Idle

arc_vars == <<replacer_size_, mru_, mfu_, mru_ghost_, mfu_ghost_, alive_map_,
              ghost_map_, mru_target_size_, curr_size_, arc_ret, aborted, clash,
              last_set_false, last_call>>
clock_vars == <<num_pages_, clock_hand_, reference_bits_, pinned_, current_size_, clock_ret,
                bounded_scan, ignored_call, script_pos, hand_advanced>>
thread_vars == <<shared_replacer, latch_, pc>>
vars == <<arc_vars, clock_vars, thread_vars>>

PageIds == 0 .. MaxPageId

\* ---- size_t arithmetic on representatives ----
SizeTAdd(a, d) == a + d
SizeTSub(a, d) == a - d
\* a < b as unsigned 64-bit values
SizeTLess(a, b) ==
    IF (a >= 0) = (b >= 0) THEN a < b ELSE a >= 0

\* ---- list helpers ----
PushFront(list, x) == <<x>> \o list
EraseAt(list, pos) == SubSeq(list, 1, pos - 1) \o SubSeq(list, pos + 1, Len(list))
PopBack(list) == SubSeq(list, 1, Len(list) - 1)
Back(list) == list[Len(list)]
MoveToFront(list, pos) == <<list[pos]>> \o EraseAt(list, pos)

\* Mutation of MapErase: the key is not erased.
MapEraseNothing(map, k) == map

\* a map without one key (std::unordered_map::erase)
MapErase(map, k) == [x \in DOMAIN map \ {k} |-> map[x]]
\* map[k] = v (operator[] assignment: insert or overwrite)
MapPut(map, k, v) == [x \in DOMAIN map \cup {k} |-> IF x = k THEN v ELSE map[x]]

\* The handles of `map` into the list of `region` after a push_front on it.
ItersAfterPush(map, region) ==
    [x \in DOMAIN map |->
        IF map[x].arc_status_ = region /\ map[x].iter_ > 0
        THEN [map[x] EXCEPT !.iter_ = @ + 1] ELSE map[x]]
\* The handles of `map` into the list of `region` after the node at pos is erased.
ItersAfterErase(map, region, pos) ==
    [x \in DOMAIN map |->
        IF map[x].arc_status_ # region THEN map[x]
        ELSE IF map[x].iter_ = pos THEN [map[x] EXCEPT !.iter_ = 0]
        ELSE IF map[x].iter_ > pos THEN [map[x] EXCEPT !.iter_ = @ - 1]
        ELSE map[x]]
\* The handles after the node at pos is spliced to the front of its own list.
ItersAfterSplice(map, region, pos) ==
    [x \in DOMAIN map |->
        IF map[x].arc_status_ # region \/ map[x].iter_ = 0 THEN map[x]
        ELSE IF map[x].iter_ = pos THEN [map[x] EXCEPT !.iter_ = 1]
        ELSE IF map[x].iter_ < pos THEN [map[x] EXCEPT !.iter_ = @ + 1]
        ELSE map[x]]

\* std::make_shared<FrameStatus>(page_id, frame_id, evictable, status), then its iterator set
FrameStatus(page_id, frame_id, ev, status, it) ==
    [page_id_ |-> page_id, frame_id_ |-> frame_id, evictable_ |-> ev,
     arc_status_ |-> status, iter_ |-> it]

\* The FrameStatus of a ghost entry: evictable_ is false.  Its frame_id_ is written
\* once and read by no operation, so the record does not carry it.
GhostStatus(page_id, status, it) ==
    [page_id_ |-> page_id, evictable_ |-> FALSE, arc_status_ |-> status, iter_ |-> it]

\* The ArcReplacer's fields as one record, so that the operations are functions on it.
ArcState ==
    [mru |-> mru_, mfu |-> mfu_, mru_ghost |-> mru_ghost_, mfu_ghost |-> mfu_ghost_,
     alive |-> alive_map_, ghost |-> ghost_map_, target |-> mru_target_size_,
     size |-> curr_size_, ub |-> FALSE]

\* std::nullopt, and the frame field of a call that returned no frame
NoFrame == -1

\* ---- ArcReplacer::EvictInternal ----
\* Mutation of VictimPos: the scan does not test evictable_.
VictimPosAnyFrame(from_list, alive) ==
    LET cand == {i \in 1 .. Len(from_list) : from_list[i] \in DOMAIN alive}
    IN  IF cand = {} THEN 0 ELSE CHOOSE i \in cand : \A j \in cand : j <= i

\* The reverse scan of from_list: the position of the entry closest to the back whose
\* frame is in alive_map_ and evictable; 0 when the scan reaches rend().
VictimPos(from_list, alive) ==
    LET cand == {i \in 1 .. Len(from_list) :
                    from_list[i] \in DOMAIN alive /\ alive[from_list[i]].evictable_}
    IN  IF cand = {} THEN 0 ELSE CHOOSE i \in cand : \A j \in cand : j <= i

\* Mutation of EvictInternal: the page is pushed to the back of the ghost list.
EvictInternalPushesBack(s, ghost_status) ==
    LET from_mru == ghost_status = "MRU_GHOST"
        from_region == IF from_mru THEN "MRU" ELSE "MFU"
        from_list == IF from_mru THEN s.mru ELSE s.mfu
        to_ghost_list == IF from_mru THEN s.mru_ghost ELSE s.mfu_ghost
        pos == VictimPos(from_list, s.alive)
    IN  IF pos = 0
        THEN [found |-> FALSE, frame |-> NoFrame, state |-> s]
        ELSE
          LET frame_id == from_list[pos]
              page == s.alive[frame_id].page_id_
              new_from == EraseAt(from_list, pos)
              new_to == to_ghost_list \o <<page>>
              new_ghost == MapPut(s.ghost, page,
                                  GhostStatus(page, ghost_status, Len(to_ghost_list) + 1))
              new_alive == ItersAfterErase(MapErase(s.alive, frame_id), from_region, pos)
          IN  [found |-> TRUE, frame |-> frame_id,
               state |-> [s EXCEPT
                   !.mru = IF from_mru THEN new_from ELSE @,
                   !.mfu = IF from_mru THEN @ ELSE new_from,
                   !.mru_ghost = IF from_mru THEN new_to ELSE @,
                   !.mfu_ghost = IF from_mru THEN @ ELSE new_to,
                   !.ghost = new_ghost,
                   !.alive = new_alive,
                   !.size = SizeTSub(s.size, 1)]]

\* EvictInternal(from_list, ghost_status, to_ghost_list) on state s.  The two call
\* sites pass (mru_, MRU_GHOST, mru_ghost_) and (mfu_, MFU_GHOST, mfu_ghost_), so
\* ghost_status names all three.
EvictInternal(s, ghost_status) ==
    LET from_mru == ghost_status = "MRU_GHOST"
        from_region == IF from_mru THEN "MRU" ELSE "MFU"
        from_list == IF from_mru THEN s.mru ELSE s.mfu
        to_ghost_list == IF from_mru THEN s.mru_ghost ELSE s.mfu_ghost
        pos == VictimPos(from_list, s.alive)
    IN  IF pos = 0
        THEN [found |-> FALSE, frame |-> NoFrame, state |-> s]
        ELSE
          LET frame_id == from_list[pos]
              page == s.alive[frame_id].page_id_
              new_from == EraseAt(from_list, pos)
              new_to == PushFront(to_ghost_list, page)
              new_ghost == MapPut(ItersAfterPush(s.ghost, ghost_status), page,
                                  GhostStatus(page, ghost_status, 1))
              new_alive == ItersAfterErase(MapErase(s.alive, frame_id), from_region, pos)
          IN  [found |-> TRUE, frame |-> frame_id,
               state |-> [s EXCEPT
                   !.mru = IF from_mru THEN new_from ELSE @,
                   !.mfu = IF from_mru THEN @ ELSE new_from,
                   !.mru_ghost = IF from_mru THEN new_to ELSE @,
                   !.mfu_ghost = IF from_mru THEN @ ELSE new_to,
                   !.ghost = new_ghost,
                   !.alive = new_alive,
                   !.size = SizeTSub(s.size, 1)]]

\* ---- ArcReplacer::Evict ----
\* Mutation of PrimaryGhost: mfu_ is tried first also when mru_ is exactly as long as
\* the target.
PrimaryGhostAtTarget(s) ==
    IF SizeTLess(Len(s.mru), s.target) \/ Len(s.mru) = s.target
    THEN "MFU_GHOST" ELSE "MRU_GHOST"

\* The list tried first, by the ghost status of its victims.
PrimaryGhost(s) ==
    IF SizeTLess(Len(s.mru), s.target) THEN "MFU_GHOST" ELSE "MRU_GHOST"
OtherGhost(g) == IF g = "MFU_GHOST" THEN "MRU_GHOST" ELSE "MFU_GHOST"

\* Mutation of EvictResult: the other list is not tried.
EvictResultPrimaryOnly(s) == EvictInternal(s, PrimaryGhost(s))

EvictResult(s) ==
    LET first == EvictInternal(s, PrimaryGhost(s))
    IN  IF first.found THEN first ELSE EvictInternal(s, OtherGhost(PrimaryGhost(s)))

\* ---- ArcReplacer::RecordAccess ----
\* Mutation of AccessHit: a frame promoted from mru_ gets a fresh status, evictable,
\* and is counted, as an admission does.
AccessHitReadmits(s, frame_id) ==
    LET st == s.alive[frame_id]
        it == st.iter_
    IN  IF st.arc_status_ = "MRU" THEN
            [s EXCEPT
                !.mru = EraseAt(s.mru, it),
                !.mfu = PushFront(s.mfu, frame_id),
                !.alive = [ItersAfterPush(ItersAfterErase(s.alive, "MRU", it), "MFU")
                              EXCEPT ![frame_id] =
                                  FrameStatus(st.page_id_, frame_id, TRUE, "MFU", 1)],
                !.size = SizeTAdd(s.size, 1)]
        ELSE [s EXCEPT
                !.mfu = MoveToFront(s.mfu, it),
                !.alive = ItersAfterSplice(s.alive, "MFU", it)]

\* Case 1: frame_id is in alive_map_.
AccessHit(s, frame_id) ==
    LET st == s.alive[frame_id]
        it == st.iter_
    IN  IF it = 0 THEN [s EXCEPT !.ub = TRUE]
        ELSE IF st.arc_status_ = "MRU" THEN
            [s EXCEPT
                !.mru = EraseAt(s.mru, it),
                !.mfu = PushFront(s.mfu, frame_id),
                !.alive = [ItersAfterPush(ItersAfterErase(s.alive, "MRU", it), "MFU")
                              EXCEPT ![frame_id] = [st EXCEPT !.arc_status_ = "MFU", !.iter_ = 1]]]
        ELSE IF st.arc_status_ = "MFU" THEN
            [s EXCEPT
                !.mfu = MoveToFront(s.mfu, it),
                !.alive = ItersAfterSplice(s.alive, "MFU", it)]
        ELSE s

\* Mutation of AdmitMfu: the frame is admitted at the back of mfu_.
AdmitMfuAtBack(s, frame_id, page_id) ==
    [s EXCEPT
        !.mfu = s.mfu \o <<frame_id>>,
        !.alive = MapPut(s.alive, frame_id,
                         FrameStatus(page_id, frame_id, TRUE, "MFU", Len(s.mfu) + 1)),
        !.size = SizeTAdd(s.size, 1)]

\* The new frame pushed to the front of mfu_ with a fresh status (cases 2 and 3).
AdmitMfu(s, frame_id, page_id) ==
    [s EXCEPT
        !.mfu = PushFront(s.mfu, frame_id),
        !.alive = MapPut(ItersAfterPush(s.alive, "MFU"), frame_id,
                         FrameStatus(page_id, frame_id, TRUE, "MFU", 1)),
        !.size = SizeTAdd(s.size, 1)]

\* The new frame pushed to the front of mru_ with a fresh status (case 4).
AdmitMru(s, frame_id, page_id) ==
    [s EXCEPT
        !.mru = PushFront(s.mru, frame_id),
        !.alive = MapPut(ItersAfterPush(s.alive, "MRU"), frame_id,
                         FrameStatus(page_id, frame_id, TRUE, "MRU", 1)),
        !.size = SizeTAdd(s.size, 1)]

\* Case 2: page_id is in ghost_map_ with status MRU_GHOST.
MruGhostDelta(s) ==
    IF Len(s.mru_ghost) >= Len(s.mfu_ghost) THEN 1
    ELSE Len(s.mfu_ghost) \div Len(s.mru_ghost)

\* Mutation of AccessMruGhost: the page stays in mru_ghost_ and in ghost_map_.
AccessMruGhostKeepsGhost(s, frame_id, page_id) ==
    AdmitMfu([s EXCEPT !.target = SizeTAdd(s.target, MruGhostDelta(s))], frame_id, page_id)

AccessMruGhost(s, frame_id, page_id) ==
    LET it == s.ghost[page_id].iter_
    IN  IF it = 0 \/ (Len(s.mru_ghost) < Len(s.mfu_ghost) /\ Len(s.mru_ghost) = 0)
        THEN [s EXCEPT !.ub = TRUE]
        ELSE AdmitMfu([s EXCEPT
                 !.target = SizeTAdd(s.target, MruGhostDelta(s)),
                 !.mru_ghost = EraseAt(s.mru_ghost, it),
                 !.ghost = ItersAfterErase(MapErase(s.ghost, page_id), "MRU_GHOST", it)],
               frame_id, page_id)

\* Case 3: page_id is in ghost_map_ with status MFU_GHOST.
MfuGhostDelta(s) ==
    IF Len(s.mfu_ghost) >= Len(s.mru_ghost) THEN 1
    ELSE Len(s.mru_ghost) \div Len(s.mfu_ghost)

AccessMfuGhost(s, frame_id, page_id) ==
    LET it == s.ghost[page_id].iter_
    IN  IF it = 0 \/ (Len(s.mfu_ghost) < Len(s.mru_ghost) /\ Len(s.mfu_ghost) = 0)
        THEN [s EXCEPT !.ub = TRUE]
        ELSE AdmitMfu([s EXCEPT
                 !.target = SizeTSub(s.target, MfuGhostDelta(s)),
                 !.mfu_ghost = EraseAt(s.mfu_ghost, it),
                 !.ghost = ItersAfterErase(MapErase(s.ghost, page_id), "MFU_GHOST", it)],
               frame_id, page_id)

\* Case 4a's and 4b's trimming: back(), pop_back() and the ghost_map_ erase of the
\* page read.  On an empty list back() and pop_back() are undefined.
TrimMruGhost(s) ==
    IF s.mru_ghost = <<>> THEN [s EXCEPT !.ub = TRUE]
    ELSE [s EXCEPT
             !.mru_ghost = PopBack(s.mru_ghost),
             !.ghost = MapErase(ItersAfterErase(s.ghost, "MRU_GHOST", Len(s.mru_ghost)),
                                Back(s.mru_ghost))]

\* Mutation of TrimMfuGhost: nothing is popped.
TrimMfuGhostKeepsList(s) == s

TrimMfuGhost(s) ==
    IF s.mfu_ghost = <<>> THEN [s EXCEPT !.ub = TRUE]
    ELSE [s EXCEPT
             !.mfu_ghost = PopBack(s.mfu_ghost),
             !.ghost = MapErase(ItersAfterErase(s.ghost, "MFU_GHOST", Len(s.mfu_ghost)),
                                Back(s.mfu_ghost))]

\* Mutation of AccessMiss: the frame is admitted without trimming a ghost list.
AccessMissNoTrim(s, n, frame_id, page_id) == AdmitMru(s, frame_id, page_id)

\* Mutation of AccessMiss: the test of case 4b is made before the test of case 4a.
AccessMissTestsTotalFirst(s, n, frame_id, page_id) ==
    LET trimmed ==
            IF Len(s.mru) + Len(s.mfu) + Len(s.mru_ghost) + Len(s.mfu_ghost) = 2 * n
                 THEN TrimMfuGhost(s)
            ELSE IF Len(s.mru) + Len(s.mru_ghost) = n THEN TrimMruGhost(s)
            ELSE s
    IN  IF trimmed.ub THEN trimmed ELSE AdmitMru(trimmed, frame_id, page_id)

\* Case 4: the access misses all four lists.
AccessMiss(s, n, frame_id, page_id) ==
    LET trimmed ==
            IF Len(s.mru) + Len(s.mru_ghost) = n THEN TrimMruGhost(s)
            ELSE IF Len(s.mru) + Len(s.mfu) + Len(s.mru_ghost) + Len(s.mfu_ghost) = 2 * n
                 THEN TrimMfuGhost(s)
            ELSE s
    IN  IF trimmed.ub THEN trimmed ELSE AdmitMru(trimmed, frame_id, page_id)

RecordAccessResult(s, n, frame_id, page_id) ==
    IF frame_id \in DOMAIN s.alive THEN AccessHit(s, frame_id)
    ELSE IF page_id \in DOMAIN s.ghost THEN
        IF s.ghost[page_id].arc_status_ = "MRU_GHOST"
            THEN AccessMruGhost(s, frame_id, page_id)
        ELSE IF s.ghost[page_id].arc_status_ = "MFU_GHOST"
            THEN AccessMfuGhost(s, frame_id, page_id)
        ELSE s
    ELSE AccessMiss(s, n, frame_id, page_id)

\* ---- ArcReplacer::SetEvictable ----
\* Mutation of SetEvictableResult: the flag is flipped and curr_size_ is not adjusted.
SetEvictableResultKeepsSize(s, frame_id, set_evictable) ==
    IF frame_id \notin DOMAIN s.alive THEN [thrown |-> TRUE, state |-> s]
    ELSE [thrown |-> FALSE,
          state |-> [s EXCEPT
              !.alive = [@ EXCEPT ![frame_id] = [@ EXCEPT !.evictable_ = set_evictable]]]]

\* Mutation of SetEvictableResult: no return when the flag has the value already.
SetEvictableResultCountsRepeat(s, frame_id, set_evictable) ==
    IF frame_id \notin DOMAIN s.alive THEN [thrown |-> TRUE, state |-> s]
    ELSE [thrown |-> FALSE,
          state |-> [s EXCEPT
              !.alive = [@ EXCEPT ![frame_id] = [@ EXCEPT !.evictable_ = set_evictable]],
              !.size = IF set_evictable THEN SizeTAdd(s.size, 1) ELSE SizeTSub(s.size, 1)]]

\* Mutation of SetEvictableResult: curr_size_ is adjusted before the lookup, so the
\* throwing exit leaves it changed.
SetEvictableResultCountsFirst(s, frame_id, set_evictable) ==
    LET counted == [s EXCEPT !.size = IF set_evictable THEN SizeTAdd(s.size, 1)
                                      ELSE SizeTSub(s.size, 1)]
    IN  IF frame_id \notin DOMAIN s.alive THEN [thrown |-> TRUE, state |-> counted]
        ELSE IF s.alive[frame_id].evictable_ = set_evictable
            THEN [thrown |-> FALSE, state |-> s]
        ELSE [thrown |-> FALSE,
              state |-> [counted EXCEPT
                  !.alive = [@ EXCEPT ![frame_id] = [@ EXCEPT !.evictable_ = set_evictable]]]]

SetEvictableResult(s, frame_id, set_evictable) ==
    IF frame_id \notin DOMAIN s.alive THEN [thrown |-> TRUE, state |-> s]
    ELSE IF s.alive[frame_id].evictable_ = set_evictable THEN [thrown |-> FALSE, state |-> s]
    ELSE [thrown |-> FALSE,
          state |-> [s EXCEPT
              !.alive = [@ EXCEPT ![frame_id] = [@ EXCEPT !.evictable_ = set_evictable]],
              !.size = IF set_evictable THEN SizeTAdd(s.size, 1) ELSE SizeTSub(s.size, 1)]]

\* ---- ArcReplacer::Remove ----
\* Mutation of RemoveResult: the evictable flag is tested after the frame was taken
\* out of its list and of alive_map_, so the throwing exit leaves the frame removed.
RemoveResultErasesFirst(s, frame_id) ==
    IF frame_id \notin DOMAIN s.alive THEN [thrown |-> FALSE, state |-> s]
    ELSE
      LET st == s.alive[frame_id]
          it == st.iter_
          erased == [s EXCEPT
                        !.mru = IF st.arc_status_ = "MRU" THEN EraseAt(s.mru, it) ELSE @,
                        !.mfu = IF st.arc_status_ = "MFU" THEN EraseAt(s.mfu, it) ELSE @,
                        !.alive = ItersAfterErase(MapErase(s.alive, frame_id),
                                                  st.arc_status_, it)]
      IN  IF ~st.evictable_ THEN [thrown |-> TRUE, state |-> erased]
          ELSE [thrown |-> FALSE, state |-> [erased EXCEPT !.size = SizeTSub(s.size, 1)]]

\* Mutation of RemoveResult: the removed frame's page is recorded at the MRU end of
\* the ghost list of its list, as an eviction records it.
RemoveResultRecordsGhost(s, frame_id) ==
    IF frame_id \notin DOMAIN s.alive THEN [thrown |-> FALSE, state |-> s]
    ELSE IF ~s.alive[frame_id].evictable_ THEN [thrown |-> TRUE, state |-> s]
    ELSE
      LET st == s.alive[frame_id]
          it == st.iter_
          to == IF st.arc_status_ = "MRU" THEN "MRU_GHOST" ELSE "MFU_GHOST"
      IN  IF it = 0
          THEN [thrown |-> FALSE, state |-> [s EXCEPT !.ub = TRUE]]
          ELSE [thrown |-> FALSE,
                state |-> [s EXCEPT
                    !.mru = IF st.arc_status_ = "MRU" THEN EraseAt(s.mru, it) ELSE @,
                    !.mfu = IF st.arc_status_ = "MFU" THEN EraseAt(s.mfu, it) ELSE @,
                    !.mru_ghost = IF to = "MRU_GHOST" THEN PushFront(@, st.page_id_) ELSE @,
                    !.mfu_ghost = IF to = "MFU_GHOST" THEN PushFront(@, st.page_id_) ELSE @,
                    !.alive = ItersAfterErase(MapErase(s.alive, frame_id),
                                              st.arc_status_, it),
                    !.ghost = MapPut(ItersAfterPush(s.ghost, to), st.page_id_,
                                     GhostStatus(st.page_id_, to, 1)),
                    !.size = SizeTSub(s.size, 1)]]

RemoveResult(s, frame_id) ==
    IF frame_id \notin DOMAIN s.alive THEN [thrown |-> FALSE, state |-> s]
    ELSE IF ~s.alive[frame_id].evictable_ THEN [thrown |-> TRUE, state |-> s]
    ELSE
      LET st == s.alive[frame_id]
          it == st.iter_
          erased == MapErase(s.alive, frame_id)
      IN  IF it = 0 /\ st.arc_status_ \in {"MRU", "MFU"}
          THEN [thrown |-> FALSE, state |-> [s EXCEPT !.ub = TRUE]]
          ELSE [thrown |-> FALSE,
                state |-> [s EXCEPT
                    !.mru = IF st.arc_status_ = "MRU" THEN EraseAt(s.mru, it) ELSE @,
                    !.mfu = IF st.arc_status_ = "MFU" THEN EraseAt(s.mfu, it) ELSE @,
                    !.alive = IF st.arc_status_ \in {"MRU", "MFU"}
                              THEN ItersAfterErase(erased, st.arc_status_, it)
                              ELSE erased,
                    !.size = SizeTSub(s.size, 1)]]

\* ---- return values ----
RetVoid == [kind |-> "void", val |-> 0]
RetThrow == [kind |-> "throw", val |-> 0]
RetNullopt == [kind |-> "nullopt", val |-> NoFrame]
RetFrame(f) == [kind |-> "frame", val |-> f]
RetSize(n) == [kind |-> "size", val |-> n]

\* ---- the history of calls ----
\* no page: the page field of a call that evicted none
NoPage == NoFrame

\* What last_call records of a call: the operation and the branch it took (op), the
\* frame it was about (frame), for an Evict that returned a frame and for a Remove
\* that removed one the page recorded for it (page), for that Evict the list the
\* frame was taken from and for a RecordAccess that missed the ghost list it trimmed
\* (from), and
\* whether the call repeats or answers the call before it (again): a SetEvictable
\* with the arguments of the SetEvictable before it, a RecordAccess of a non-resident
\* frame with the page of the frame that the Evict or Remove before it took out.
Call(op, frame, page, from, again) ==
    [op |-> op, frame |-> frame, page |-> page, from |-> from, again |-> again]

\* ---- the callers ----
\* the largest number of threads that call the replacer
MaxThreads == 2
Threads == 1 .. MaxThreads

\* latch_ when no thread holds it
Unlocked == 0

\* The call a thread is in: the operation and its arguments, and the point the
\* thread has reached in it (at).
ThreadCall(op, frame_id, page_id, flag, at) ==
    [op |-> op, frame |-> frame_id, page |-> page_id, flag |-> flag, at |-> at]

\* The thread is in no call.
Idle == ThreadCall("idle", NoFrame, NoPage, FALSE, "idle")

\* No thread is in a call: the state in which a replacer is used by one caller.
NoThreadsInit ==
    /\ latch_ = Unlocked
    /\ pc = [t \in Threads |-> Idle]

\* ---- construction ----
\* ArcReplacer(num_frames): lists and maps empty, target size 0, size 0.
ArcConstruct(num_frames) ==
    /\ replacer_size_ = num_frames
    /\ mru_ = <<>> /\ mfu_ = <<>> /\ mru_ghost_ = <<>> /\ mfu_ghost_ = <<>>
    /\ alive_map_ = <<>> /\ ghost_map_ = <<>>
    /\ mru_target_size_ = 0
    /\ curr_size_ = 0
    /\ arc_ret = RetVoid
    /\ aborted = FALSE
    /\ clash = 0
    /\ last_set_false = {}
    /\ last_call = Call("construct", NoFrame, NoPage, "", FALSE)

\* ClockReplacer(num_pages)
ClockConstruct(num_pages) ==
    /\ num_pages_ = num_pages
    /\ clock_hand_ = 0
    /\ reference_bits_ = [i \in 0 .. num_pages - 1 |-> FALSE]
    /\ pinned_ = [i \in 0 .. num_pages - 1 |-> FALSE]
    /\ current_size_ = 0
    /\ clock_ret = RetVoid

\* ---- the ArcReplacer's operations as actions ----
\* The fields take the values of state record s and the call returns r.
ArcCommit(s, r) ==
    /\ mru_' = s.mru /\ mfu_' = s.mfu
    /\ mru_ghost_' = s.mru_ghost /\ mfu_ghost_' = s.mfu_ghost
    /\ alive_map_' = s.alive /\ ghost_map_' = s.ghost
    /\ mru_target_size_' = s.target
    /\ curr_size_' = s.size
    /\ arc_ret' = r
    /\ aborted' = FALSE
    /\ UNCHANGED <<replacer_size_, clock_vars>>

\* The operation ran into undefined behaviour and the process was terminated.
ArcAbort ==
    /\ aborted' = TRUE
    /\ UNCHANGED <<replacer_size_, mru_, mfu_, mru_ghost_, mfu_ghost_, alive_map_,
                   ghost_map_, mru_target_size_, curr_size_, arc_ret, clash,
                   last_set_false, last_call, clock_vars>>

\* The states a build that is not terminated can be in after RecordAccess read
\* back() of the empty ghost list and popped it: back() yielded some page id g, the
\* list is still empty, g was erased from ghost_map_ and the frame was admitted.
MissAfterEmptyTrim(s, frame_id, page_id) ==
    {AdmitMru([s EXCEPT !.ghost = MapErase(s.ghost, g)], frame_id, page_id) : g \in PageIds}

\* The caller presents, for frame_id, a page id that is recorded for another resident frame.
PageClash(s, frame_id, page_id) ==
    \E f \in DOMAIN s.alive \ {frame_id} : s.alive[f].page_id_ = page_id

\* The branch of RecordAccess that a call with these arguments takes.
AccessCase(s, frame_id, page_id) ==
    IF frame_id \in DOMAIN s.alive THEN
        IF s.alive[frame_id].arc_status_ = "MRU" THEN "hit_mru" ELSE "hit_mfu"
    ELSE IF page_id \in DOMAIN s.ghost THEN
        IF s.ghost[page_id].arc_status_ = "MRU_GHOST" THEN "mru_ghost_hit" ELSE "mfu_ghost_hit"
    ELSE "miss"

\* The ghost list that a RecordAccess with these arguments trims: the one of case 4a
\* or of case 4b on a miss, none otherwise.
TrimmedList(s, frame_id, page_id) ==
    IF AccessCase(s, frame_id, page_id) # "miss" THEN ""
    ELSE IF Len(s.mru) + Len(s.mru_ghost) = replacer_size_ THEN "MRU_GHOST"
    ELSE IF Len(s.mru) + Len(s.mfu) + Len(s.mru_ghost) + Len(s.mfu_ghost) = 2 * replacer_size_
         THEN "MFU_GHOST"
    ELSE ""

\* The call records itself in last_call.
RecordAccessCalled(s, frame_id, page_id) ==
    last_call' = Call(AccessCase(s, frame_id, page_id), frame_id, NoPage,
                      TrimmedList(s, frame_id, page_id),
                      /\ last_call.op \in {"evict", "remove"}
                      /\ last_call.page = page_id
                      /\ frame_id \notin DOMAIN s.alive)

RecordAccess(frame_id, page_id) ==
    /\ ~aborted
    /\ LET s == ArcState
           r == RecordAccessResult(s, replacer_size_, frame_id, page_id)
       IN  IF r.ub
           THEN \/ ArcAbort
                \/ /\ frame_id \notin DOMAIN s.alive /\ page_id \notin DOMAIN s.ghost
                   /\ \E c \in MissAfterEmptyTrim(s, frame_id, page_id) :
                         ArcCommit(c, RetVoid)
                   /\ RecordAccessCalled(s, frame_id, page_id)
                   /\ UNCHANGED <<clash, last_set_false>>
           ELSE /\ r.target \in -MaxWrap .. MaxTarget
                /\ ArcCommit(r, RetVoid)
                /\ RecordAccessCalled(s, frame_id, page_id)
                /\ clash' = clash + (IF PageClash(s, frame_id, page_id) THEN 1 ELSE 0)
                /\ clash' <= MaxClash
                /\ UNCHANGED last_set_false

SetEvictable(frame_id, set_evictable) ==
    /\ ~aborted
    /\ LET r == SetEvictableResult(ArcState, frame_id, set_evictable)
       IN  /\ ArcCommit(r.state, IF r.thrown THEN RetThrow ELSE RetVoid)
           /\ last_set_false' =
                  IF r.thrown THEN last_set_false
                  ELSE IF set_evictable THEN last_set_false \ {frame_id}
                  ELSE last_set_false \cup {frame_id}
           /\ last_call' = Call("set_evictable", frame_id, NoPage, "",
                  /\ ~r.thrown
                  /\ last_call.op = "set_evictable"
                  /\ last_call.frame = frame_id
                  /\ arc_ret # RetThrow
                  /\ alive_map_[frame_id].evictable_ = set_evictable)
    /\ UNCHANGED clash

Evict ==
    /\ ~aborted
    /\ LET r == EvictResult(ArcState)
       IN  /\ ArcCommit(r.state, IF r.found THEN RetFrame(r.frame) ELSE RetNullopt)
           /\ last_call' =
                  IF r.found
                  THEN Call("evict", r.frame, alive_map_[r.frame].page_id_,
                            alive_map_[r.frame].arc_status_, FALSE)
                  ELSE Call("evict", NoFrame, NoPage, "", FALSE)
    /\ UNCHANGED <<clash, last_set_false>>

Remove(frame_id) ==
    /\ ~aborted
    /\ LET r == RemoveResult(ArcState, frame_id)
       IN  IF r.state.ub THEN ArcAbort
           ELSE /\ ArcCommit(r.state, IF r.thrown THEN RetThrow ELSE RetVoid)
                /\ last_call' =
                       IF frame_id \in DOMAIN alive_map_ /\ ~r.thrown
                       THEN Call("remove", frame_id, alive_map_[frame_id].page_id_, "", FALSE)
                       ELSE Call("remove", NoFrame, NoPage, "", FALSE)
                /\ UNCHANGED <<clash, last_set_false>>

Size ==
    /\ ~aborted
    /\ ArcCommit(ArcState, RetSize(curr_size_))
    /\ last_call' = Call("size", NoFrame, NoPage, "", FALSE)
    /\ UNCHANGED <<clash, last_set_false>>

\* Frame ids name the slots of the pool: 0 .. num_frames - 1.
FrameIds == 0 .. replacer_size_ - 1

Init ==
    /\ \E n \in 1 .. MaxFrames : ArcConstruct(n)
    /\ ClockConstruct(1)
    /\ bounded_scan = TRUE
    /\ ignored_call = FALSE
    /\ script_pos = 0
    /\ hand_advanced = 0
    /\ shared_replacer = "ArcReplacer"
    /\ NoThreadsInit

\* One caller: each call runs from its lock_guard to its exit with no other call.
Next ==
    \/ \E f \in FrameIds, pg \in PageIds : RecordAccess(f, pg) /\ UNCHANGED thread_vars
    \/ \E f \in FrameIds, b \in BOOLEAN : SetEvictable(f, b) /\ UNCHANGED thread_vars
    \/ Evict /\ UNCHANGED thread_vars
    \/ \E f \in FrameIds : Remove(f) /\ UNCHANGED thread_vars
    \/ Size /\ UNCHANGED thread_vars

Spec == Init /\ [][Next]_vars

\* ---- a caller with one frame more than the capacity ----
\* RecordAccess, SetEvictable and Remove take any frame_id_t: no operation compares
\* frame_id with replacer_size_.  This caller names the frames 0 .. num_frames, one
\* more than the ArcReplacer was constructed for.
OverFrameIds == 0 .. replacer_size_

OverCapacityInit ==
    /\ \E n \in 1 .. MaxOverFrames : ArcConstruct(n)
    /\ ClockConstruct(1)
    /\ bounded_scan = TRUE
    /\ ignored_call = FALSE
    /\ script_pos = 0
    /\ hand_advanced = 0
    /\ shared_replacer = "ArcReplacer"
    /\ NoThreadsInit

\* the caller still makes calls
OverCapacityCalls ==
    Len(mru_) + Len(mfu_) + Len(mru_ghost_) + Len(mfu_ghost_) < MaxOverEntries

OverCapacityNext ==
    \/ \E f \in OverFrameIds, pg \in PageIds :
          OverCapacityCalls /\ RecordAccess(f, pg) /\ UNCHANGED thread_vars
    \/ \E f \in OverFrameIds, b \in BOOLEAN :
          OverCapacityCalls /\ SetEvictable(f, b) /\ UNCHANGED thread_vars
    \/ OverCapacityCalls /\ Evict /\ UNCHANGED thread_vars
    \/ \E f \in OverFrameIds : OverCapacityCalls /\ Remove(f) /\ UNCHANGED thread_vars
    \/ OverCapacityCalls /\ Size /\ UNCHANGED thread_vars

OverCapacitySpec == OverCapacityInit /\ [][OverCapacityNext]_vars

\* ---- ClockReplacer (src/src/buffer/clock_replacer.cpp and src/unnamed/part_001) ----
\* The two files differ in Victim only: the scan of src/src/buffer/clock_replacer.cpp
\* stops after num_pages_ slots, the scan of src/unnamed/part_001 runs until it finds
\* a victim.  bounded_scan tells which of the two is built.
RetTrue(f) == [kind |-> "true", val |-> f]
RetFalse == [kind |-> "false", val |-> NoFrame]
\* Victim of part_001 called with current_size_ > 0 and no slot tracked: the loop
\* never ends and the latch is never released.
RetNever == [kind |-> "never_returns", val |-> NoFrame]

\* No call is stuck holding the latch.
ClockRunning == clock_ret # RetNever

\* ---- the history of ClockReplacer calls ----
ClockCall(op, frame_id) == [op |-> op, arg |-> frame_id]

\* Unpin 0, 1, 2, then Unpin(1) again, then three Victim calls.
SecondChanceScript ==
    <<ClockCall("Unpin", 0), ClockCall("Unpin", 1), ClockCall("Unpin", 2),
      ClockCall("Unpin", 1),
      ClockCall("Victim", NoFrame), ClockCall("Victim", NoFrame), ClockCall("Victim", NoFrame)>>

\* Unpin 1, 2, 3, 4, 5, 6, then Victim, Unpin(1), Victim.
BasicScript ==
    <<ClockCall("Unpin", 1), ClockCall("Unpin", 2), ClockCall("Unpin", 3),
      ClockCall("Unpin", 4), ClockCall("Unpin", 5), ClockCall("Unpin", 6),
      ClockCall("Victim", NoFrame), ClockCall("Unpin", 1), ClockCall("Victim", NoFrame)>>

\* The sequence of calls that script_pos follows on a replacer of num_pages_ slots.
ClockScript ==
    IF num_pages_ = 3 THEN SecondChanceScript
    ELSE IF num_pages_ = BasicClockPages THEN BasicScript
    ELSE <<>>

\* The call records itself: script_pos counts the calls of ClockScript matched since
\* construction and is -1 once a call departed from it; ignored_call remembers a
\* Pin or Unpin whose frame id was out of range; hand_advanced is the number of
\* executions of clock_hand_ = (clock_hand_ + 1) % num_pages_ in the call.
ClockCalled(call, out_of_range, advanced) ==
    /\ script_pos' =
           IF script_pos >= 0 /\ script_pos < Len(ClockScript)
              /\ ClockScript[script_pos + 1] = call
           THEN script_pos + 1 ELSE -1
    /\ ignored_call' = (ignored_call \/ out_of_range)
    /\ hand_advanced' = advanced
    /\ UNCHANGED bounded_scan

ClockHistoryInit ==
    /\ ignored_call = FALSE
    /\ script_pos = 0
    /\ hand_advanced = 0

\* The loop of ClockReplacer::Victim (src/src/buffer/clock_replacer.cpp): `scanned`
\* slots were passed so far.  The result is where the loop left the hand and the
\* reference bits, the victim if one was found before num_pages slots were scanned,
\* and how often the hand was advanced.
RECURSIVE ClockScan(_, _, _, _, _)
ClockScan(hand, ref, tracked, scanned, n) ==
    IF ~(scanned < n)
        THEN [found |-> FALSE, victim |-> NoFrame, hand |-> hand, ref |-> ref,
              advanced |-> scanned]
    ELSE IF ~tracked[hand]
        THEN ClockScan((hand + 1) % n, ref, tracked, scanned + 1, n)
    ELSE IF ref[hand]
        THEN ClockScan((hand + 1) % n, [ref EXCEPT ![hand] = FALSE], tracked, scanned + 1, n)
    ELSE [found |-> TRUE, victim |-> hand, hand |-> (hand + 1) % n, ref |-> ref,
          advanced |-> scanned + 1]

ClockVictim ==
    /\ bounded_scan
    /\ ClockRunning
    /\ ClockCalled(ClockCall("Victim", NoFrame), FALSE,
                   IF current_size_ = 0 THEN 0
                   ELSE ClockScan(clock_hand_, reference_bits_, pinned_, 0, num_pages_).advanced)
    /\ IF current_size_ = 0
       THEN /\ clock_ret' = RetFalse
            /\ UNCHANGED <<num_pages_, clock_hand_, reference_bits_, pinned_, current_size_, arc_vars>>
       ELSE LET r == ClockScan(clock_hand_, reference_bits_, pinned_, 0, num_pages_)
            IN  /\ clock_hand_' = r.hand
                /\ reference_bits_' =
                       IF r.found THEN [r.ref EXCEPT ![r.victim] = FALSE] ELSE r.ref
                /\ pinned_' = IF r.found THEN [pinned_ EXCEPT ![r.victim] = FALSE] ELSE pinned_
                /\ current_size_' = IF r.found THEN SizeTSub(current_size_, 1) ELSE current_size_
                /\ clock_ret' = IF r.found THEN RetTrue(r.victim) ELSE RetFalse
                /\ UNCHANGED <<num_pages_, arc_vars>>

\* The loop of ClockReplacer::Victim (src/unnamed/part_001), `while (true)`, entered
\* with a tracked slot: it ends at the first tracked slot whose reference bit is clear.
\* `advanced` counts the times the hand was advanced, the one past the victim included.
\* Mutation of ClockScanUnbounded: the victim is read from the hand after the hand
\* was advanced.
RECURSIVE ClockScanUnboundedReportsNext(_, _, _, _)
ClockScanUnboundedReportsNext(hand, ref, tracked, n) ==
    IF ~tracked[hand]
        THEN [ClockScanUnboundedReportsNext((hand + 1) % n, ref, tracked, n)
                  EXCEPT !.advanced = @ + 1]
    ELSE IF ref[hand]
        THEN [ClockScanUnboundedReportsNext((hand + 1) % n, [ref EXCEPT ![hand] = FALSE],
                                            tracked, n)
                  EXCEPT !.advanced = @ + 1]
    ELSE [victim |-> (hand + 1) % n, hand |-> (hand + 1) % n, ref |-> ref, advanced |-> 1]

\* Mutation of ClockScanUnbounded: no second chance, the first tracked slot is the
\* victim whatever its reference bit.
RECURSIVE ClockScanUnboundedNoSecondChance(_, _, _, _)
ClockScanUnboundedNoSecondChance(hand, ref, tracked, n) ==
    IF ~tracked[hand]
        THEN [ClockScanUnboundedNoSecondChance((hand + 1) % n, ref, tracked, n)
                  EXCEPT !.advanced = @ + 1]
    ELSE [victim |-> hand, hand |-> (hand + 1) % n, ref |-> ref, advanced |-> 1]

RECURSIVE ClockScanUnbounded(_, _, _, _)
ClockScanUnbounded(hand, ref, tracked, n) ==
    IF ~tracked[hand]
        THEN [ClockScanUnbounded((hand + 1) % n, ref, tracked, n) EXCEPT !.advanced = @ + 1]
    ELSE IF ref[hand]
        THEN [ClockScanUnbounded((hand + 1) % n, [ref EXCEPT ![hand] = FALSE], tracked, n)
                  EXCEPT !.advanced = @ + 1]
    ELSE [victim |-> hand, hand |-> (hand + 1) % n, ref |-> ref, advanced |-> 1]

\* Mutation of ClockVictimUnbounded: the scan stops after num_pages_ slots, as the
\* scan of src/src/buffer/clock_replacer.cpp does.
ClockVictimUnboundedStopsAfterRotation ==
    /\ ~bounded_scan
    /\ ClockRunning
    /\ ClockCalled(ClockCall("Victim", NoFrame), FALSE,
                   IF current_size_ = 0 THEN 0
                   ELSE ClockScan(clock_hand_, reference_bits_, pinned_, 0, num_pages_).advanced)
    /\ IF current_size_ = 0
       THEN /\ clock_ret' = RetFalse
            /\ UNCHANGED <<num_pages_, clock_hand_, reference_bits_, pinned_, current_size_, arc_vars>>
       ELSE LET r == ClockScan(clock_hand_, reference_bits_, pinned_, 0, num_pages_)
            IN  /\ clock_hand_' = r.hand
                /\ reference_bits_' =
                       IF r.found THEN [r.ref EXCEPT ![r.victim] = FALSE] ELSE r.ref
                /\ pinned_' = IF r.found THEN [pinned_ EXCEPT ![r.victim] = FALSE] ELSE pinned_
                /\ current_size_' = IF r.found THEN SizeTSub(current_size_, 1) ELSE current_size_
                /\ clock_ret' = IF r.found THEN RetTrue(r.victim) ELSE RetFalse
                /\ UNCHANGED <<num_pages_, arc_vars>>

\* Victim of src/unnamed/part_001.  A call that finds current_size_ > 0 and no slot
\* tracked never returns; hand_advanced is then left at 0.
ClockVictimUnbounded ==
    /\ ~bounded_scan
    /\ ClockRunning
    /\ ClockCalled(ClockCall("Victim", NoFrame), FALSE,
                   IF current_size_ = 0 \/ \A i \in DOMAIN pinned_ : ~pinned_[i] THEN 0
                   ELSE ClockScanUnbounded(clock_hand_, reference_bits_, pinned_,
                                           num_pages_).advanced)
    /\ IF current_size_ = 0
       THEN /\ clock_ret' = RetFalse
            /\ UNCHANGED <<num_pages_, clock_hand_, reference_bits_, pinned_, current_size_, arc_vars>>
       ELSE IF \A i \in DOMAIN pinned_ : ~pinned_[i]
       THEN /\ clock_ret' = RetNever
            /\ UNCHANGED <<num_pages_, clock_hand_, reference_bits_, pinned_, current_size_, arc_vars>>
       ELSE LET r == ClockScanUnbounded(clock_hand_, reference_bits_, pinned_, num_pages_)
            IN  /\ clock_hand_' = r.hand
                /\ reference_bits_' = [r.ref EXCEPT ![r.victim] = FALSE]
                /\ pinned_' = [pinned_ EXCEPT ![r.victim] = FALSE]
                /\ current_size_' = SizeTSub(current_size_, 1)
                /\ clock_ret' = RetTrue(r.victim)
                /\ UNCHANGED <<num_pages_, arc_vars>>

ClockPin(frame_id) ==
    /\ ClockRunning
    /\ ClockCalled(ClockCall("Pin", frame_id), frame_id < 0 \/ frame_id >= num_pages_, 0)
    /\ IF frame_id < 0 \/ frame_id >= num_pages_ THEN
           UNCHANGED <<pinned_, reference_bits_, current_size_>>
       ELSE IF pinned_[frame_id] THEN
           /\ pinned_' = [pinned_ EXCEPT ![frame_id] = FALSE]
           /\ reference_bits_' = [reference_bits_ EXCEPT ![frame_id] = FALSE]
           /\ current_size_' = IF current_size_ > 0 THEN SizeTSub(current_size_, 1)
                               ELSE current_size_
       ELSE UNCHANGED <<pinned_, reference_bits_, current_size_>>
    /\ clock_ret' = RetVoid
    /\ UNCHANGED <<num_pages_, clock_hand_, arc_vars>>

\* Mutation of ClockUnpin: a frame that is tracked already is counted again.
ClockUnpinCountsAgain(frame_id) ==
    /\ ClockRunning
    /\ ClockCalled(ClockCall("Unpin", frame_id), frame_id < 0 \/ frame_id >= num_pages_, 0)
    /\ IF frame_id < 0 \/ frame_id >= num_pages_ THEN
           UNCHANGED <<pinned_, reference_bits_, current_size_>>
       ELSE
           /\ pinned_' = [pinned_ EXCEPT ![frame_id] = TRUE]
           /\ reference_bits_' = [reference_bits_ EXCEPT ![frame_id] = TRUE]
           /\ current_size_' = SizeTAdd(current_size_, 1)
    /\ clock_ret' = RetVoid
    /\ UNCHANGED <<num_pages_, clock_hand_, arc_vars>>

ClockUnpin(frame_id) ==
    /\ ClockRunning
    /\ ClockCalled(ClockCall("Unpin", frame_id), frame_id < 0 \/ frame_id >= num_pages_, 0)
    /\ IF frame_id < 0 \/ frame_id >= num_pages_ THEN
           UNCHANGED <<pinned_, reference_bits_, current_size_>>
       ELSE IF ~pinned_[frame_id] THEN
           /\ pinned_' = [pinned_ EXCEPT ![frame_id] = TRUE]
           /\ reference_bits_' = [reference_bits_ EXCEPT ![frame_id] = TRUE]
           /\ current_size_' = SizeTAdd(current_size_, 1)
       ELSE UNCHANGED <<pinned_, reference_bits_, current_size_>>
    /\ clock_ret' = RetVoid
    /\ UNCHANGED <<num_pages_, clock_hand_, arc_vars>>

ClockSize ==
    /\ ClockRunning
    /\ ClockCalled(ClockCall("Size", NoFrame), FALSE, 0)
    /\ clock_ret' = RetSize(current_size_)
    /\ UNCHANGED <<num_pages_, clock_hand_, reference_bits_, pinned_, current_size_, arc_vars>>

\* frame_id_t is a signed integer: the caller may pass ids outside 0 .. num_pages - 1
ClockFrameArgs == -1 .. num_pages_

\* src/src/buffer/clock_replacer.cpp
ClockInit ==
    /\ ArcConstruct(1)
    /\ \E n \in 1 .. MaxClockPages : ClockConstruct(n)
    /\ bounded_scan = TRUE
    /\ ClockHistoryInit
    /\ shared_replacer = "ClockReplacer"
    /\ NoThreadsInit

ClockNext ==
    \/ ClockVictim /\ UNCHANGED thread_vars
    \/ \E f \in ClockFrameArgs : ClockPin(f) /\ UNCHANGED thread_vars
    \/ \E f \in ClockFrameArgs : ClockUnpin(f) /\ UNCHANGED thread_vars
    \/ ClockSize /\ UNCHANGED thread_vars

ClockSpec == ClockInit /\ [][ClockNext]_vars

\* Either of the two files is built.
ClockBuildsInit ==
    /\ ArcConstruct(1)
    /\ \E n \in 1 .. MaxClockPages : ClockConstruct(n)
    /\ bounded_scan \in BOOLEAN
    /\ ClockHistoryInit
    /\ shared_replacer = "ClockReplacer"
    /\ NoThreadsInit

ClockBuildsNext ==
    \/ ClockVictim /\ UNCHANGED thread_vars
    \/ ClockVictimUnbounded /\ UNCHANGED thread_vars
    \/ \E f \in ClockFrameArgs : ClockPin(f) /\ UNCHANGED thread_vars
    \/ \E f \in ClockFrameArgs : ClockUnpin(f) /\ UNCHANGED thread_vars
    \/ ClockSize /\ UNCHANGED thread_vars

ClockBuildsSpec == ClockBuildsInit /\ [][ClockBuildsNext]_vars

\* src/unnamed/part_001 on a replacer of BasicClockPages slots
ClockBasicInit ==
    /\ ArcConstruct(1)
    /\ ClockConstruct(BasicClockPages)
    /\ bounded_scan = FALSE
    /\ ClockHistoryInit
    /\ shared_replacer = "ClockReplacer"
    /\ NoThreadsInit

ClockBasicNext ==
    \/ ClockVictimUnbounded /\ UNCHANGED thread_vars
    \/ \E f \in ClockFrameArgs : ClockPin(f) /\ UNCHANGED thread_vars
    \/ \E f \in ClockFrameArgs : ClockUnpin(f) /\ UNCHANGED thread_vars
    \/ ClockSize /\ UNCHANGED thread_vars

ClockBasicSpec == ClockBasicInit /\ [][ClockBasicNext]_vars

\* ---- the replacers under concurrent callers ----
\* A call is three kinds of steps: the lock_guard's constructor takes latch_ (Lock),
\* the body runs, and the lock_guard's destructor releases latch_ at the exit
\* (Unlock).  The body of a call is the operation above, one step; the two writes of
\* ArcReplacer::SetEvictable (the flag, then curr_size_) and of ClockReplacer::Unpin
\* (the slot's bits, then current_size_) are two steps each, so that the state
\* between them is a state of the model.

\* the largest capacity of the ArcReplacer the threads share
MaxSharedFrames == 1
\* the largest num_pages of the ClockReplacer the threads share
MaxSharedPages == 2

\* The calls a thread can make on the shared replacer.
ArcCalls ==
    {ThreadCall("RecordAccess", f, pg, FALSE, "locked") : f \in FrameIds, pg \in PageIds}
    \cup {ThreadCall("SetEvictable", f, NoPage, b, "locked") : f \in FrameIds, b \in BOOLEAN}
    \cup {ThreadCall("Evict", NoFrame, NoPage, FALSE, "locked")}
    \cup {ThreadCall("Remove", f, NoPage, FALSE, "locked") : f \in FrameIds}
    \cup {ThreadCall("Size", NoFrame, NoPage, FALSE, "locked")}

ClockCalls ==
    {ThreadCall("Victim", NoFrame, NoPage, FALSE, "locked")}
    \cup {ThreadCall("Pin", f, NoPage, FALSE, "locked") : f \in ClockFrameArgs}
    \cup {ThreadCall("Unpin", f, NoPage, FALSE, "locked") : f \in ClockFrameArgs}
    \cup {ThreadCall("ClockSize", NoFrame, NoPage, FALSE, "locked")}

SharedCalls == IF shared_replacer = "ArcReplacer" THEN ArcCalls ELSE ClockCalls

\* std::lock_guard<std::mutex> guard(latch_), the first statement of every public
\* operation: the thread waits until latch_ is free and takes it.
Lock(t, call) ==
    /\ pc[t] = Idle
    /\ latch_ = Unlocked
    /\ latch_' = t
    /\ pc' = [pc EXCEPT ![t] = call]
    /\ UNCHANGED <<shared_replacer, arc_vars, clock_vars>>

\* Mutation of Unlock: latch_ is released by a statement before each return, so the
\* exit by an exception leaves it held.
UnlockUnlessThrown(t) ==
    /\ pc[t].at = "done"
    /\ latch_' = IF shared_replacer = "ArcReplacer" /\ arc_ret = RetThrow
                 THEN latch_ ELSE Unlocked
    /\ pc' = [pc EXCEPT ![t] = Idle]
    /\ UNCHANGED <<shared_replacer, arc_vars, clock_vars>>

\* The lock_guard's destructor, run at every exit of the operation: a return, the
\* end of the body, an exception.
Unlock(t) ==
    /\ pc[t].at = "done"
    /\ latch_' = Unlocked
    /\ pc' = [pc EXCEPT ![t] = Idle]
    /\ UNCHANGED <<shared_replacer, arc_vars, clock_vars>>

\* The thread is in a call of op and has just taken the latch.
Running(t, op) == pc[t].op = op /\ pc[t].at = "locked"

\* The thread has reached an exit of its call.
Done(t) ==
    /\ pc' = [pc EXCEPT ![t].at = "done"]
    /\ UNCHANGED <<shared_replacer, latch_>>

ThreadRecordAccess(t) ==
    /\ Running(t, "RecordAccess")
    /\ RecordAccess(pc[t].frame, pc[t].page)
    /\ Done(t)

\* SetEvictable's write of the flag is ahead: the frame is resident and its flag
\* differs from the argument.
FlagChanges(t) ==
    /\ pc[t].frame \in DOMAIN alive_map_
    /\ alive_map_[pc[t].frame].evictable_ # pc[t].flag

\* SetEvictable that throws or returns early (part_000:451-459).
ThreadSetEvictable(t) ==
    /\ Running(t, "SetEvictable")
    /\ ~FlagChanges(t)
    /\ SetEvictable(pc[t].frame, pc[t].flag)
    /\ Done(t)

\* frame_status->evictable_ = set_evictable (part_000:460)
ThreadSetFlag(t) ==
    /\ Running(t, "SetEvictable")
    /\ FlagChanges(t)
    /\ alive_map_' = [alive_map_ EXCEPT ![pc[t].frame].evictable_ = pc[t].flag]
    /\ pc' = [pc EXCEPT ![t].at = "flag_set"]
    /\ UNCHANGED <<replacer_size_, mru_, mfu_, mru_ghost_, mfu_ghost_, ghost_map_,
                   mru_target_size_, curr_size_, arc_ret, aborted, clash, last_set_false,
                   last_call, clock_vars, shared_replacer, latch_>>

\* curr_size_++ or curr_size_-- (part_000:461-465), and the return
ThreadCountFlag(t) ==
    /\ pc[t].op = "SetEvictable" /\ pc[t].at = "flag_set"
    /\ curr_size_' = IF pc[t].flag THEN SizeTAdd(curr_size_, 1) ELSE SizeTSub(curr_size_, 1)
    /\ arc_ret' = RetVoid
    /\ last_set_false' = IF pc[t].flag THEN last_set_false \ {pc[t].frame}
                         ELSE last_set_false \cup {pc[t].frame}
    /\ last_call' = Call("set_evictable", pc[t].frame, NoPage, "", FALSE)
    /\ Done(t)
    /\ UNCHANGED <<replacer_size_, mru_, mfu_, mru_ghost_, mfu_ghost_, alive_map_,
                   ghost_map_, mru_target_size_, aborted, clash, clock_vars>>

ThreadEvict(t) == Running(t, "Evict") /\ Evict /\ Done(t)

ThreadRemove(t) == Running(t, "Remove") /\ Remove(pc[t].frame) /\ Done(t)

ThreadSize(t) == Running(t, "Size") /\ Size /\ Done(t)

ThreadVictim(t) ==
    /\ Running(t, "Victim")
    /\ (ClockVictim \/ ClockVictimUnbounded)
    /\ Done(t)

ThreadPin(t) == Running(t, "Pin") /\ ClockPin(pc[t].frame) /\ Done(t)

\* Unpin's writes are ahead: the frame id is in range and the slot is not tracked.
SlotChanges(t) ==
    /\ pc[t].frame >= 0 /\ pc[t].frame < num_pages_
    /\ ~pinned_[pc[t].frame]

\* Unpin that returns without a write (part_001:85-88).
ThreadUnpin(t) ==
    /\ Running(t, "Unpin")
    /\ ~SlotChanges(t)
    /\ ClockUnpin(pc[t].frame)
    /\ Done(t)

\* pinned_[frame_id] = true; reference_bits_[frame_id] = true (part_001:89-90)
ThreadTrack(t) ==
    /\ Running(t, "Unpin")
    /\ SlotChanges(t)
    /\ pinned_' = [pinned_ EXCEPT ![pc[t].frame] = TRUE]
    /\ reference_bits_' = [reference_bits_ EXCEPT ![pc[t].frame] = TRUE]
    /\ pc' = [pc EXCEPT ![t].at = "tracked"]
    /\ UNCHANGED <<num_pages_, clock_hand_, current_size_, clock_ret, bounded_scan,
                   ignored_call, script_pos, hand_advanced, arc_vars, shared_replacer,
                   latch_>>

\* current_size_++ (part_001:91), and the return
ThreadCountTracked(t) ==
    /\ pc[t].op = "Unpin" /\ pc[t].at = "tracked"
    /\ current_size_' = SizeTAdd(current_size_, 1)
    /\ clock_ret' = RetVoid
    /\ ClockCalled(ClockCall("Unpin", pc[t].frame), FALSE, 0)
    /\ Done(t)
    /\ UNCHANGED <<num_pages_, clock_hand_, reference_bits_, pinned_, arc_vars>>

ThreadClockSize(t) == Running(t, "ClockSize") /\ ClockSize /\ Done(t)

\* The threads share an ArcReplacer or a ClockReplacer (of either file).
ThreadsInit ==
    /\ \/ /\ shared_replacer = "ArcReplacer"
          /\ \E n \in 1 .. MaxSharedFrames : ArcConstruct(n)
          /\ ClockConstruct(1)
          /\ bounded_scan = TRUE
       \/ /\ shared_replacer = "ClockReplacer"
          /\ ArcConstruct(1)
          /\ \E n \in 1 .. MaxSharedPages : ClockConstruct(n)
          /\ bounded_scan \in BOOLEAN
    /\ ClockHistoryInit
    /\ NoThreadsInit

ThreadsNext ==
    \/ \E t \in Threads, call \in SharedCalls : Lock(t, call)
    \/ \E t \in Threads : Unlock(t)
    \/ \E t \in Threads : ThreadRecordAccess(t)
    \/ \E t \in Threads : ThreadSetEvictable(t)
    \/ \E t \in Threads : ThreadSetFlag(t)
    \/ \E t \in Threads : ThreadCountFlag(t)
    \/ \E t \in Threads : ThreadEvict(t)
    \/ \E t \in Threads : ThreadRemove(t)
    \/ \E t \in Threads : ThreadSize(t)
    \/ \E t \in Threads : ThreadVictim(t)
    \/ \E t \in Threads : ThreadPin(t)
    \/ \E t \in Threads : ThreadUnpin(t)
    \/ \E t \in Threads : ThreadTrack(t)
    \/ \E t \in Threads : ThreadCountTracked(t)
    \/ \E t \in Threads : ThreadClockSize(t)

ThreadsSpec == ThreadsInit /\ [][ThreadsNext]_vars

\* ======================= claims =======================

\* C1: whenever ClockReplacer::Victim (the scan bounded by num_pages_ steps) is called
\* with Size() > 0 it returns true and yields a frame that was tracked when it was
\* called; it returns false only when no frame is tracked.
C1_VictimFindsTrackedFrame ==
    [][ClockVictim =>
          /\ current_size_ > 0 =>
                 /\ clock_ret'.kind = "true"
                 /\ clock_ret'.val \in DOMAIN pinned_
                 /\ pinned_[clock_ret'.val]
          /\ clock_ret'.kind = "false" => \A i \in DOMAIN pinned_ : ~pinned_[i]]_vars

\* C1's case: Victim has returned false while frames are tracked.
C1_VictimFailedWhileTracked ==
    /\ clock_ret.kind = "false"
    /\ \E i \in DOMAIN pinned_ : pinned_[i]

Min(a, b) == IF a <= b THEN a ELSE b
Max(a, b) == IF a >= b THEN a ELSE b

\* The RecordAccess(frame_id, page_id) about to run is a ghost hit in the list of `status`.
IsGhostHit(frame_id, page_id, status) ==
    /\ frame_id \notin DOMAIN alive_map_
    /\ page_id \in DOMAIN ghost_map_
    /\ ghost_map_[page_id].arc_status_ = status

\* mru_target_size_ holds a value of [0, N] (a negative representative is a wrapped,
\* huge value).
TargetInRange == 0 <= mru_target_size_ /\ mru_target_size_ <= replacer_size_

\* C2: the adaptive target p never exceeds N: a ghost hit in B1 met with p in [0, N]
\* sets p to min(p + delta, N).
C2_MruGhostHitSaturatesAtCapacity ==
    [][\A f \in FrameIds, pg \in PageIds :
          (RecordAccess(f, pg) /\ IsGhostHit(f, pg, "MRU_GHOST") /\ TargetInRange) =>
              /\ mru_target_size_' =
                     Min(mru_target_size_ + MruGhostDelta(ArcState), replacer_size_)
              /\ TargetInRange']_vars

\* C3: a ghost hit in B2 met with p in [0, N] sets p to max(p - delta, 0): p does not
\* go below 0 and does not wrap around; with p = 0 it leaves p = 0.
C3_MfuGhostHitSaturatesAtZero ==
    [][\A f \in FrameIds, pg \in PageIds :
          (RecordAccess(f, pg) /\ IsGhostHit(f, pg, "MFU_GHOST") /\ TargetInRange) =>
              /\ mru_target_size_' =
                     Max(mru_target_size_ - MfuGhostDelta(ArcState), 0)
              /\ TargetInRange']_vars

\* C4: Evict never returns a frame that is non-evictable when it is called, that is a
\* frame whose last SetEvictable(f, false) was not followed by SetEvictable(f, true).
C4_EvictExcludesNonEvictable ==
    [][\A f \in FrameIds :
          (arc_ret' = RetFrame(f) /\ Evict) =>
              /\ f \notin last_set_false
              /\ f \in DOMAIN alive_map_
              /\ alive_map_[f].evictable_]_vars

\* C4's case: Evict has returned a frame while another frame is held non-evictable by
\* the caller's last SetEvictable(f, false).
C4_EvictedBesideNonEvictable ==
    /\ arc_ret.kind = "frame"
    /\ last_set_false # {}
    /\ \A f \in last_set_false : f \in DOMAIN alive_map_ /\ ~alive_map_[f].evictable_

\* No resident frame is evictable.
NoEvictableFrame == \A f \in DOMAIN alive_map_ : ~alive_map_[f].evictable_

\* C5: Evict returns std::nullopt exactly when no resident frame is evictable, which
\* is exactly when Size() is 0; otherwise it returns a resident evictable frame.
C5_EvictNoneIffNothingEvictable ==
    [][(arc_ret'.kind \in {"nullopt", "frame"} /\ Evict) =>
          /\ (arc_ret' = RetNullopt) <=> NoEvictableFrame
          /\ NoEvictableFrame <=> (curr_size_ = 0)
          /\ arc_ret' # RetNullopt =>
                 /\ arc_ret'.kind = "frame"
                 /\ arc_ret'.val \in DOMAIN alive_map_]_vars

\* C5's case: Evict has returned a frame although its primary list held only
\* non-evictable frames.  mru_ghost_ is empty, so the victim went to mfu_ghost_ and
\* came from mfu_; mru_ is as it was, not shorter than the target (the primary list),
\* not empty, and all its frames are non-evictable.
C5_EvictedFromFallbackList ==
    /\ arc_ret.kind = "frame"
    /\ mru_ghost_ = <<>>
    /\ mfu_ghost_ # <<>>
    /\ mru_ # <<>>
    /\ ~SizeTLess(Len(mru_), mru_target_size_)
    /\ \A i \in 1 .. Len(mru_) : ~alive_map_[mru_[i]].evictable_

Range(list) == {list[i] : i \in 1 .. Len(list)}
IsInjective(list) == \A i, j \in 1 .. Len(list) : list[i] = list[j] => i = j

\* The number of frames of T1 and T2 whose evictable flag is true.
EvictableCount ==
    Cardinality({f \in Range(mru_) \cup Range(mfu_) :
                    f \in DOMAIN alive_map_ /\ alive_map_[f].evictable_})

\* C6: the value Size() returns, curr_size_, is the number of frames in T1 and T2
\* whose evictable flag is true.
C6_SizeCountsEvictableFrames ==
    /\ curr_size_ = EvictableCount
    /\ arc_ret.kind = "size" => arc_ret.val = EvictableCount

\* C6's case: Size() has returned while a non-evictable frame is resident beside an
\* evictable one and pages were evicted before.
C6_SizeReturnedWithMixedFrames ==
    /\ arc_ret = RetSize(1)
    /\ Cardinality(DOMAIN alive_map_) = 2
    /\ \E f \in DOMAIN alive_map_ : ~alive_map_[f].evictable_
    /\ DOMAIN ghost_map_ # {}

TotalLen == Len(mru_) + Len(mfu_) + Len(mru_ghost_) + Len(mfu_ghost_)

\* C7: |T1| + |B1| <= N and |T1| + |T2| + |B1| + |B2| <= 2N.
C7_CapacityInvariant ==
    /\ Len(mru_) + Len(mru_ghost_) <= replacer_size_
    /\ TotalLen <= 2 * replacer_size_

\* C7's case: both sums are at their limit with a frame just admitted to T1.
C7_BothSumsAtLimit ==
    /\ Len(mru_) + Len(mru_ghost_) = replacer_size_
    /\ TotalLen = 2 * replacer_size_
    /\ mru_ # <<>>
    /\ mru_ghost_ # <<>>
    /\ arc_ret = RetVoid

\* C8 as stated: the ghost history of each side is at most N.
C8_GhostListsWithinCapacity ==
    /\ Len(mru_ghost_) <= replacer_size_
    /\ Len(mfu_ghost_) <= replacer_size_

\* C8, amended: |B1| <= N and |B2| <= 2N.
C8_GhostListsBounded ==
    /\ Len(mru_ghost_) <= replacer_size_
    /\ Len(mfu_ghost_) <= 2 * replacer_size_

\* C8's case: B2 holds 2N different pages, evicted under a well-behaved caller.
C8_MfuGhostAtTwiceCapacity ==
    /\ Len(mfu_ghost_) = 2 * replacer_size_
    /\ IsInjective(mfu_ghost_)
    /\ clash = 0

\* The indexes and the lists agree: the keys of alive_map_ are the frames of T1 and
\* T2, the keys of ghost_map_ are the pages of B1 and B2, no list holds a key twice,
\* no key is in two lists, and each status record names the list that holds its key
\* and, by its iterator, the node that holds it.
IndexConsistent ==
    /\ DOMAIN alive_map_ = Range(mru_) \cup Range(mfu_)
    /\ DOMAIN ghost_map_ = Range(mru_ghost_) \cup Range(mfu_ghost_)
    /\ IsInjective(mru_ \o mfu_)
    /\ IsInjective(mru_ghost_ \o mfu_ghost_)
    /\ \A f \in DOMAIN alive_map_ :
          LET st == alive_map_[f]
          IN  /\ st.frame_id_ = f
              /\ st.arc_status_ \in {"MRU", "MFU"}
              /\ st.arc_status_ = "MRU" =>
                     st.iter_ \in 1 .. Len(mru_) /\ mru_[st.iter_] = f
              /\ st.arc_status_ = "MFU" =>
                     st.iter_ \in 1 .. Len(mfu_) /\ mfu_[st.iter_] = f
    /\ \A pg \in DOMAIN ghost_map_ :
          LET st == ghost_map_[pg]
          IN  /\ st.page_id_ = pg
              /\ st.arc_status_ \in {"MRU_GHOST", "MFU_GHOST"}
              /\ st.arc_status_ = "MRU_GHOST" =>
                     st.iter_ \in 1 .. Len(mru_ghost_) /\ mru_ghost_[st.iter_] = pg
              /\ st.arc_status_ = "MFU_GHOST" =>
                     st.iter_ \in 1 .. Len(mfu_ghost_) /\ mfu_ghost_[st.iter_] = pg

\* C9: as long as the caller has never presented a page id recorded for a different
\* resident frame, the indexes and the lists agree.
C9_IndexConsistency == clash = 0 => IndexConsistent

\* C9's case: with a well-behaved caller, frames are resident in T1 and in T2 and a
\* ghost list holds a page.
C9_ResidentAndGhostEntries ==
    /\ clash = 0
    /\ mru_ # <<>> /\ mfu_ # <<>>
    /\ DOMAIN ghost_map_ # {}

\* The page ids of the four lists, one after the other.
ListedPages ==
    [i \in 1 .. Len(mru_) |-> alive_map_[mru_[i]].page_id_]
        \o [i \in 1 .. Len(mfu_) |-> alive_map_[mfu_[i]].page_id_]
        \o mru_ghost_ \o mfu_ghost_

\* C10 as stated: after any sequence of calls a page id appears in at most one of T1,
\* T2, B1, B2, and at most once in it.
C10_PageInAtMostOneList == IsInjective(ListedPages)

\* C10, amended: the same, as long as the caller has never presented a page id
\* recorded for a different resident frame.
C10_PageInAtMostOneListUnlessClash == clash = 0 => IsInjective(ListedPages)

\* C10's case: with a well-behaved caller every page id is in one of the lists.
C10_AllPagesListed ==
    /\ clash = 0
    /\ Range(ListedPages) = PageIds
    /\ mru_ghost_ # <<>> /\ mfu_ghost_ # <<>>

\* The fields of the ArcReplacer that the operations read and write.
ArcFields ==
    <<mru_, mfu_, mru_ghost_, mfu_ghost_, alive_map_, ghost_map_, mru_target_size_, curr_size_>>

\* C11: SetEvictable(f, v) with f not in alive_map_ (never accessed, evicted or
\* removed) throws and changes no state: T1, T2, B1, B2, both indexes, p and size
\* are as before the call.
C11_SetEvictableUnknownThrows ==
    [][\A f \in FrameIds, v \in BOOLEAN :
          (f \notin DOMAIN alive_map_ /\ SetEvictable(f, v)) =>
              /\ arc_ret' = RetThrow
              /\ UNCHANGED ArcFields]_vars

\* C11's case: SetEvictable has thrown for a frame that is not resident, while
\* another frame is resident and a ghost list remembers an evicted page.
C11_ThrownForUnknownFrame ==
    /\ last_call.op = "set_evictable"
    /\ arc_ret = RetThrow
    /\ last_call.frame \notin DOMAIN alive_map_
    /\ DOMAIN alive_map_ # {}
    /\ DOMAIN ghost_map_ # {}

\* C12: Remove(f) with f resident and non-evictable throws and changes no state (f
\* stays in its list at the same position, size is unchanged); Remove(f) with f not
\* in alive_map_ returns and changes no state.
C12_RemoveThrowsOrIgnores ==
    [][\A f \in FrameIds :
          Remove(f) =>
              /\ (f \in DOMAIN alive_map_ /\ ~alive_map_[f].evictable_) =>
                     /\ arc_ret' = RetThrow
                     /\ UNCHANGED ArcFields
              /\ f \notin DOMAIN alive_map_ =>
                     /\ arc_ret' = RetVoid
                     /\ UNCHANGED ArcFields]_vars

\* C12's case: Remove has thrown; the non-evictable frame it was called for is still
\* resident, behind an evictable frame of the same list.
C12_ThrownForPinnedFrame ==
    /\ last_call.op = "remove"
    /\ arc_ret = RetThrow
    /\ \E i \in 2 .. Len(mru_) :
          /\ ~alive_map_[mru_[i]].evictable_
          /\ alive_map_[mru_[1]].evictable_

\* The fields of the ClockReplacer.
ClockFields == <<num_pages_, clock_hand_, reference_bits_, pinned_, current_size_>>

\* The number of tracked slots.
TrackedCount == Cardinality({i \in DOMAIN pinned_ : pinned_[i]})

\* C13: in either clock_replacer.cpp, after any sequence of Pin, Unpin and Victim
\* calls the size is the number of tracked slots and the hand is in [0, N); a Pin or
\* Unpin with a negative or >= N frame id changes nothing.
C13_ClockInvariant ==
    /\ [](current_size_ = TrackedCount /\ clock_hand_ \in 0 .. num_pages_ - 1)
    /\ [][\A f \in ClockFrameArgs :
            ((ClockPin(f) \/ ClockUnpin(f)) /\ (f < 0 \/ f >= num_pages_)) =>
                UNCHANGED ClockFields]_vars

\* C13's case: out-of-range calls were made, Victim of part_001 has found a victim
\* and moved the hand, and frames are still tracked.
C13_VictimAfterIgnoredCalls ==
    /\ ~bounded_scan
    /\ ignored_call
    /\ clock_ret.kind = "true"
    /\ clock_hand_ # 0
    /\ current_size_ >= 1

\* What C14 says of a RecordAccess(f, pg) step: pg is in no ghost list and not in
\* ghost_map_ after it, f is at the front of T2, evictable, recorded with pg, T1 is
\* as before and the size is one more.
GhostHitAdmits(f, pg) ==
    /\ pg \notin DOMAIN ghost_map_'
    /\ pg \notin Range(mru_ghost_') \cup Range(mfu_ghost_')
    /\ Len(mru_ghost_') + Len(mfu_ghost_') = Len(mru_ghost_) + Len(mfu_ghost_) - 1
    /\ mfu_' = <<f>> \o mfu_
    /\ mru_' = mru_
    /\ f \in DOMAIN alive_map_'
    /\ alive_map_'[f].arc_status_ = "MFU"
    /\ alive_map_'[f].evictable_
    /\ alive_map_'[f].page_id_ = pg
    /\ curr_size_' = curr_size_ + 1

\* The RecordAccess(f, pg) about to run presents, for a non-resident frame, the page
\* of the frame that the call before it, an Evict, returned.
FollowsEvictOf(f, pg) ==
    /\ last_call.op = "evict"
    /\ last_call.page = pg
    /\ f \notin DOMAIN alive_map_

\* C14 as stated: if Evict returns a frame whose recorded page was pg, an immediately
\* following RecordAccess(f, pg) for any non-resident frame f is a ghost hit: pg
\* leaves its ghost list and ghost_map_, and f is admitted at the MRU end of T2,
\* evictable, with the size incremented by 1.
C14_GhostRoundTrip ==
    [][\A f \in FrameIds, pg \in PageIds :
          (FollowsEvictOf(f, pg) /\ RecordAccess(f, pg)) => GhostHitAdmits(f, pg)]_vars

\* C14, amended: the same, as long as the caller has never presented a page id
\* recorded for a different resident frame.
C14_GhostRoundTripUnlessClash ==
    [][\A f \in FrameIds, pg \in PageIds :
          (FollowsEvictOf(f, pg) /\ RecordAccess(f, pg) /\ clash' = 0) =>
              GhostHitAdmits(f, pg)]_vars

\* C14's case: with a well-behaved caller, the access that followed an Evict with
\* the evicted page was handled as a ghost hit, and other frames are resident.
C14_RoundTripMade ==
    /\ clash = 0
    /\ last_call.again
    /\ last_call.op \in {"mru_ghost_hit", "mfu_ghost_hit"}
    /\ Len(mfu_) >= 2

\* A list without the entries equal to x, the others in their order.
Without(list, x) == SelectSeq(list, LAMBDA y : y # x)

\* The step is a RecordAccess(f, pg), for some pg, that found f in alive_map_: the
\* call recorded in last_call is new and is a hit of f.
ResidentHitOf(f) ==
    /\ f \in DOMAIN alive_map_
    /\ last_call'.op \in {"hit_mru", "hit_mfu"}
    /\ last_call'.frame = f
    /\ arc_ret' = RetVoid

\* C15: RecordAccess(f, pg) with f resident, in T1 or in T2, leaves f at the MRU end
\* of T2; p, the size, f's evictable flag, both ghost lists and the relative order of
\* all other resident frames are unchanged, and the page id passed makes no
\* difference: whatever pg is, the lists and the records after the call are these.
C15_ResidentHitPromotes ==
    [][\A f \in FrameIds :
          ResidentHitOf(f) =>
              /\ mfu_' = <<f>> \o Without(mfu_, f)
              /\ mru_' = Without(mru_, f)
              /\ UNCHANGED <<mru_target_size_, curr_size_, mru_ghost_, mfu_ghost_, ghost_map_>>
              /\ DOMAIN alive_map_' = DOMAIN alive_map_
              /\ alive_map_'[f].arc_status_ = "MFU"
              /\ \A g \in DOMAIN alive_map_ :
                    /\ alive_map_'[g].evictable_ = alive_map_[g].evictable_
                    /\ alive_map_'[g].page_id_ = alive_map_[g].page_id_
                    /\ g # f => alive_map_'[g].arc_status_ = alive_map_[g].arc_status_]_vars

\* C15's case: a non-evictable frame of T1 was accessed and is now at the MRU end
\* of T2, in front of another frame, with pages remembered in a ghost list.
C15_PinnedFramePromoted ==
    /\ last_call.op = "hit_mru"
    /\ Len(mfu_) >= 2
    /\ mfu_[1] = last_call.frame
    /\ ~alive_map_[mfu_[1]].evictable_
    /\ DOMAIN ghost_map_ # {}

\* C16: SetEvictable(f, v) on a resident frame changes only f's evictable flag, and
\* the size by +1 or -1, and only when the flag changes; the lists, the ghosts and p
\* are unchanged; a second consecutive SetEvictable(f, v) with the same v leaves the
\* state as the first left it.
C16_SetEvictableTouchesFlagAndSize ==
    [][\A f \in FrameIds, v \in BOOLEAN :
          (f \in DOMAIN alive_map_ /\ last_call'.frame = f /\ SetEvictable(f, v)) =>
              /\ arc_ret' = RetVoid
              /\ UNCHANGED <<mru_, mfu_, mru_ghost_, mfu_ghost_, ghost_map_, mru_target_size_>>
              /\ alive_map_' = [alive_map_ EXCEPT ![f].evictable_ = v]
              /\ curr_size_' = IF alive_map_[f].evictable_ = v THEN curr_size_
                               ELSE IF v THEN curr_size_ + 1
                               ELSE curr_size_ - 1
              /\ last_call'.again => UNCHANGED ArcFields]_vars

\* C16's case: SetEvictable(f, false) was called twice in a row on a resident frame,
\* beside an evictable frame.
C16_SetEvictableRepeated ==
    /\ last_call.op = "set_evictable"
    /\ last_call.again
    /\ ~alive_map_[last_call.frame].evictable_
    /\ curr_size_ = 1

\* The replacer of part_001 with three slots has run the first k calls of
\* SecondChanceScript and no other call.
ScriptAt(k) == ~bounded_scan /\ num_pages_ = 3 /\ script_pos = k

\* C18 as stated: with N = 3, after Unpin(0), Unpin(1), Unpin(2) and a repeated
\* Unpin(1), three successive Victim calls return 0, then 2, then 1.
C18_SecondChanceReturns021 ==
    /\ ScriptAt(5) => clock_ret = RetTrue(0)
    /\ ScriptAt(6) => clock_ret = RetTrue(2)
    /\ ScriptAt(7) => clock_ret = RetTrue(1)

\* C18, amended: the three Victim calls return 0, then 1, then 2.
C18_SecondChanceReturns012 ==
    /\ ScriptAt(5) => clock_ret = RetTrue(0)
    /\ ScriptAt(6) => clock_ret = RetTrue(1)
    /\ ScriptAt(7) => clock_ret = RetTrue(2)

\* C18's case: the whole script has run.
C18_ScriptCompleted == ScriptAt(7)

\* |T1| >= p, with p the value that mru_target_size_ holds (a negative representative
\* is a value above every list length).
MruIsPrimary == mru_target_size_ >= 0 /\ Len(mru_) >= mru_target_size_

\* The positions of the evictable frames of a list of resident frames.
EvictableIn(list) == {i \in 1 .. Len(list) : alive_map_[list[i]].evictable_}

\* The evictable frame closest to the LRU end (the back) of the list.
LruEvictable(list) ==
    list[CHOOSE i \in EvictableIn(list) : \A j \in EvictableIn(list) : j <= i]

\* The frame C19 says Evict returns: from the primary list if it has an evictable
\* frame, else from the other list, else none.
ExpectedVictim ==
    LET primary == IF MruIsPrimary THEN mru_ ELSE mfu_
        other == IF MruIsPrimary THEN mfu_ ELSE mru_
    IN  IF EvictableIn(primary) # {} THEN LruEvictable(primary)
        ELSE IF EvictableIn(other) # {} THEN LruEvictable(other)
        ELSE NoFrame

\* C19: Evict takes T1 as the primary list when |T1| >= p and T2 otherwise; it
\* returns the evictable frame closest to the LRU end of the primary list or, if the
\* primary list has none, of the other list; the frames it skips keep their
\* positions: each list after the call is the list before it without the victim.
C19_EvictVictimChoice ==
    [][(last_call'.op = "evict" /\ Evict) =>
          /\ arc_ret' = IF ExpectedVictim = NoFrame THEN RetNullopt
                        ELSE RetFrame(ExpectedVictim)
          /\ mru_' = Without(mru_, ExpectedVictim)
          /\ mfu_' = Without(mfu_, ExpectedVictim)]_vars

\* C19's case: Evict took its victim from T2 as the primary list (T1 is shorter than
\* p) and skipped the non-evictable frame at the LRU end of T2, which is still there.
C19_EvictedFromMfuPastPinned ==
    /\ arc_ret.kind = "frame"
    /\ last_call.from = "MFU"
    /\ SizeTLess(Len(mru_), mru_target_size_)
    /\ mfu_ # <<>>
    /\ ~alive_map_[Back(mfu_)].evictable_

\* What a status record says apart from its iterator.
StatusOf(st) == [page |-> st.page_id_, region |-> st.arc_status_, ev |-> st.evictable_]

\* C20: when Evict returns frame f with recorded page pg, f is removed from its list
\* and from alive_map_, pg is inserted at the MRU end of B1 if f was in T1 and of B2
\* if f was in T2, ghost_map_ gains an entry for pg with that region and
\* evictable = false, the size decreases by exactly 1, and p and all other entries
\* are unchanged.
C20_EvictionBookkeeping ==
    [][(last_call'.op = "evict" /\ arc_ret'.kind = "frame" /\ Evict) =>
          LET f == arc_ret'.val
              pg == alive_map_[f].page_id_
              from_mru == alive_map_[f].arc_status_ = "MRU"
          IN  /\ f \in Range(IF from_mru THEN mru_ ELSE mfu_)
              /\ mru_' = Without(mru_, f)
              /\ mfu_' = Without(mfu_, f)
              /\ DOMAIN alive_map_' = DOMAIN alive_map_ \ {f}
              /\ \A g \in DOMAIN alive_map_' :
                    StatusOf(alive_map_'[g]) = StatusOf(alive_map_[g])
              /\ mru_ghost_' = IF from_mru THEN <<pg>> \o mru_ghost_ ELSE mru_ghost_
              /\ mfu_ghost_' = IF from_mru THEN mfu_ghost_ ELSE <<pg>> \o mfu_ghost_
              /\ DOMAIN ghost_map_' = DOMAIN ghost_map_ \cup {pg}
              /\ StatusOf(ghost_map_'[pg]) =
                     [page |-> pg, region |-> IF from_mru THEN "MRU_GHOST" ELSE "MFU_GHOST",
                      ev |-> FALSE]
              /\ \A q \in DOMAIN ghost_map_ \ {pg} :
                    StatusOf(ghost_map_'[q]) = StatusOf(ghost_map_[q])
              /\ curr_size_' = curr_size_ - 1
              /\ mru_target_size_' = mru_target_size_]_vars

\* C20's case: Evict has taken a frame from T2; its page is at the MRU end of B2 in
\* front of an older ghost, and another frame is still resident.
C20_EvictedIntoMfuGhost ==
    /\ arc_ret.kind = "frame"
    /\ last_call.from = "MFU"
    /\ Len(mfu_ghost_) >= 2
    /\ mfu_ghost_[1] = last_call.page
    /\ DOMAIN alive_map_ # {}
    /\ clash = 0

\* A thread that is in a call holds the latch: no two calls are between their entry
\* and their exit at once.
MutualExclusion == \A t \in Threads : pc[t] # Idle => latch_ = t

\* Every exit has released the latch: it is free when no thread is in a call.
ReleasedAtExit == (\A t \in Threads : pc[t] = Idle) => latch_ = Unlocked

\* Between calls the replacer is in a state that calls made one after the other
\* leave it in: the size is the count of evictable (tracked) frames, the lists are
\* within capacity and agree with the indexes, the hand is in range.
QuiescentState ==
    latch_ = Unlocked =>
        IF shared_replacer = "ArcReplacer"
        THEN /\ curr_size_ = EvictableCount
             /\ C7_CapacityInvariant
             /\ clash = 0 => IndexConsistent
        ELSE /\ current_size_ = TrackedCount
             /\ clock_hand_ \in 0 .. num_pages_ - 1

\* A step that changes a field of the replacer is a step of the thread that holds
\* the latch, inside its call, and of no other thread.
OnlyHolderWrites ==
    (ArcFields' # ArcFields \/ ClockFields' # ClockFields) =>
        \E t \in Threads :
            /\ latch_ = t /\ latch_' = t
            /\ pc[t] # Idle /\ pc'[t] # pc[t]
            /\ \A u \in Threads \ {t} : pc'[u] = pc[u]

\* C17: every public operation of ArcReplacer and of ClockReplacer holds the latch
\* from its entry to every exit, the throwing exits of SetEvictable and Remove
\* included, so under concurrent callers no two operations interleave their state
\* changes and the replacer is left in a state of a sequential execution.
C17_OperationsSerialized ==
    /\ [](MutualExclusion /\ ReleasedAtExit /\ QuiescentState)
    /\ [][OnlyHolderWrites]_vars

\* C17's case: a thread is between the two writes of SetEvictable, holding the
\* latch, with curr_size_ not yet the count of evictable frames, after a call of
\* another thread ended by an exception.
C17_MidCallUnderLatch ==
    /\ \E t \in Threads :
          /\ pc[t].at = "flag_set"
          /\ latch_ = t
          /\ \A u \in Threads \ {t} : pc[u] = Idle
    /\ curr_size_ # EvictableCount
    /\ arc_ret = RetThrow

\* ---- C21 ----
\* The access of frame f with page pg misses both indexes while T1 holds N frames
\* and B1 is empty.
SaturatedMiss(f, pg) ==
    /\ f \notin DOMAIN alive_map_
    /\ pg \notin DOMAIN ghost_map_
    /\ Len(mru_) = replacer_size_
    /\ mru_ghost_ = <<>>

\* C21: a record_access that misses both indexes while |T1| = N and B1 is empty
\* returns, pops the LRU entry of T1 and erases it from alive, records no ghost (B1
\* stays empty, B2 and ghost are unchanged) and admits the new frame at the MRU end
\* of T1, so that |T1| is still N.
C21_SaturatedMissDropsLruOfMru ==
    [][\A f \in OverFrameIds, pg \in PageIds :
          (SaturatedMiss(f, pg) /\ RecordAccess(f, pg)) =>
              /\ ~aborted'
              /\ mru_' = PushFront(PopBack(mru_), f)
              /\ Len(mru_') = replacer_size_
              /\ Back(mru_) \notin DOMAIN alive_map_'
              /\ f \in DOMAIN alive_map_'
              /\ mru_ghost_' = <<>>
              /\ mfu_ghost_' = mfu_ghost_
              /\ ghost_map_' = ghost_map_]_vars

\* ---- C22 ----
\* The step is a RecordAccess of frame f that returned after missing both indexes.
MissOf(f) ==
    /\ last_call'.op = "miss"
    /\ last_call'.frame = f
    /\ ~aborted'

\* the entries of a map other than the one of key k are as they were
SameExcept(map_after, map_before, k) ==
    /\ DOMAIN map_after = DOMAIN map_before \ {k}
    /\ \A x \in DOMAIN map_after : map_after[x] = map_before[x]

\* C22: a record_access that misses both indexes trims by the sizes it meets: with
\* |T1| + |B1| = N and |T1| < N the LRU entry of B1 leaves B1 and ghost; else with
\* |T1| + |T2| + |B1| + |B2| = 2N the LRU entry of B2 leaves B2 and ghost, and B2 is
\* not empty; otherwise B1, B2 and ghost are unchanged.  In every case the frame is
\* then admitted evictable at the MRU end of T1, size grows by 1, T2 and p are
\* unchanged.
C22_MissTrimsThenAdmits ==
    [][\A f \in FrameIds :
          MissOf(f) =>
              LET n == replacer_size_
                  t1 == Len(mru_)
                  b1 == Len(mru_ghost_)
                  total == t1 + Len(mfu_) + b1 + Len(mfu_ghost_)
              IN  /\ f \notin DOMAIN alive_map_
                  /\ IF t1 + b1 = n /\ t1 < n
                        THEN /\ mru_ghost_' = PopBack(mru_ghost_)
                             /\ mfu_ghost_' = mfu_ghost_
                             /\ SameExcept(ghost_map_', ghost_map_, Back(mru_ghost_))
                     ELSE IF total = 2 * n
                        THEN /\ mfu_ghost_ # <<>>
                             /\ mfu_ghost_' = PopBack(mfu_ghost_)
                             /\ mru_ghost_' = mru_ghost_
                             /\ SameExcept(ghost_map_', ghost_map_, Back(mfu_ghost_))
                     ELSE /\ mru_ghost_' = mru_ghost_
                          /\ mfu_ghost_' = mfu_ghost_
                          /\ ghost_map_' = ghost_map_
                  /\ mru_' = PushFront(mru_, f)
                  /\ mfu_' = mfu_
                  /\ f \in DOMAIN alive_map_'
                  /\ alive_map_'[f].evictable_
                  /\ alive_map_'[f].arc_status_ = "MRU"
                  /\ alive_map_'[f].page_id_ \notin DOMAIN ghost_map_
                  /\ curr_size_' = SizeTAdd(curr_size_, 1)
                  /\ mru_target_size_' = mru_target_size_]_vars

\* A miss has dropped the LRU entry of B2 (case 4b), left another entry in B2 and
\* admitted its frame at the MRU end of T1.
C22_MissTrimmedMfuGhost ==
    /\ last_call.op = "miss"
    /\ last_call.from = "MFU_GHOST"
    /\ mru_ # <<>>
    /\ mru_[1] = last_call.frame
    /\ mfu_ghost_ # <<>>

\* ---- C23 ----
\* The step is a Remove that took the resident frame f out.
RemovedBy(f) ==
    /\ last_call'.op = "remove"
    /\ last_call'.frame = f
    /\ ~aborted'

\* What C23 says of the access that follows: RecordAccess(g, pg), made in the state
\* after the step, is handled as a miss and admits g at the MRU end of T1.
ThenMissAdmits(g, pg) ==
    LET after == [mru |-> mru_', mfu |-> mfu_', mru_ghost |-> mru_ghost_',
                  mfu_ghost |-> mfu_ghost_', alive |-> alive_map_', ghost |-> ghost_map_',
                  target |-> mru_target_size_', size |-> curr_size_', ub |-> FALSE]
        r == RecordAccessResult(after, replacer_size_, g, pg)
    IN  /\ AccessCase(after, g, pg) = "miss"
        /\ ~r.ub
        /\ r.mru # <<>>
        /\ r.mru[1] = g
        /\ r.mfu = after.mfu
        /\ r.alive[g].arc_status_ = "MRU"

\* What C23 says of the Remove(f) step itself.
RemoveTakesOut(f) ==
    /\ f \in DOMAIN alive_map_
    /\ alive_map_[f].evictable_
    /\ arc_ret' = RetVoid
    /\ mru_' = Without(mru_, f)
    /\ mfu_' = Without(mfu_, f)
    /\ Len(mru_') + Len(mfu_') = Len(mru_) + Len(mfu_) - 1
    /\ DOMAIN alive_map_' = DOMAIN alive_map_ \ {f}
    /\ curr_size_' = SizeTSub(curr_size_, 1)
    /\ mru_ghost_' = mru_ghost_
    /\ mfu_ghost_' = mfu_ghost_
    /\ ghost_map_' = ghost_map_
    /\ mru_target_size_' = mru_target_size_

\* C23 as stated: Remove(f) of a resident evictable frame takes f out of its list
\* (T1 or T2) and out of alive and decrements size by 1; B1, B2, ghost and p are
\* unchanged; a following RecordAccess(g, page of f) for a non-resident frame g is a
\* miss that admits g to T1, not a ghost hit.
C23_RemoveRecordsNoGhost ==
    [][\A f \in FrameIds :
          RemovedBy(f) =>
              /\ RemoveTakesOut(f)
              /\ \A g \in FrameIds \ DOMAIN alive_map_' :
                     ThenMissAdmits(g, alive_map_[f].page_id_)]_vars

\* C23, amended: the same, as long as the caller has never presented a page id
\* recorded for a different resident frame.
C23_RemoveRecordsNoGhostUnlessClash ==
    [][\A f \in FrameIds :
          RemovedBy(f) =>
              /\ RemoveTakesOut(f)
              /\ clash = 0 =>
                     \A g \in FrameIds \ DOMAIN alive_map_' :
                        ThenMissAdmits(g, alive_map_[f].page_id_)]_vars

\* C23's case: with a well-behaved caller, a frame was removed while a ghost list
\* held another page, and the access that followed with the removed frame's page
\* was handled as a miss and admitted to T1.
C23_MissAfterRemove ==
    /\ clash = 0
    /\ last_call.op = "miss"
    /\ last_call.again
    /\ mru_ # <<>>
    /\ mru_[1] = last_call.frame
    /\ DOMAIN ghost_map_ # {}

\* ---- C24 ----
\* C24: a Victim call of src/unnamed/part_001 made with size > 0, whatever the
\* reference bits of the tracked frames, returns true with a frame that was tracked
\* after advancing the hand at most 2N times.
C24_VictimTerminatesWithinTwoRotations ==
    [][(~bounded_scan /\ current_size_ > 0 /\ ClockVictimUnbounded) =>
          /\ clock_ret'.kind = "true"
          /\ clock_ret'.val \in DOMAIN pinned_
          /\ pinned_[clock_ret'.val]
          /\ hand_advanced' >= 1
          /\ hand_advanced' <= 2 * num_pages_]_vars

\* C24's case: on a replacer of several slots a Victim call of part_001 has returned
\* a frame after more than one rotation of the hand: the first rotation cleared the
\* reference bit of every tracked frame, the second selected.
C24_VictimInSecondRotation ==
    /\ ~bounded_scan
    /\ num_pages_ >= 2
    /\ clock_ret.kind = "true"
    /\ hand_advanced > num_pages_

\* ---- C25 ----
\* how far slot i is ahead of the hand in circular index order
Ahead(i) == (i - clock_hand_) % num_pages_

\* the slot of a non-empty set that the hand reaches first
FirstAhead(slots) == CHOOSE i \in slots : \A j \in slots : Ahead(i) <= Ahead(j)

\* the tracked slots, and those of them whose reference bit is clear
TrackedSlots == {i \in DOMAIN pinned_ : pinned_[i]}
ClearSlots == {i \in TrackedSlots : ~reference_bits_[i]}

\* The first tracked slot, in circular order from the hand, whose reference bit is
\* clear when the hand reaches it: a tracked slot whose bit is clear now, or, when
\* every tracked slot has its bit set, the first tracked slot, which the hand
\* reaches again after a rotation that cleared its bit.
FirstClearReached ==
    IF ClearSlots # {} THEN FirstAhead(ClearSlots) ELSE FirstAhead(TrackedSlots)

\* the tracked slots that the hand passes before it stops at slot v
PassedBefore(v) ==
    IF ClearSlots # {} THEN {i \in TrackedSlots : Ahead(i) < Ahead(v)} ELSE TrackedSlots

\* The calls made since construction are the first k calls of the basic scenario.
BasicAt(k) == ~bounded_scan /\ num_pages_ = BasicClockPages /\ script_pos = k

\* C25: a Victim call of src/unnamed/part_001 with size > 0 returns the first tracked
\* slot, in circular order from the hand, whose reference bit is clear when the hand
\* reaches it, and clears the bit of every tracked slot it passes; afterwards the
\* victim is untracked with both bits clear, size is 1 smaller and the hand is
\* (victim + 1) mod N.  In the basic scenario (Unpin of 1 .. 6 on a replacer of
\* BasicClockPages slots, Victim, Unpin(1), Victim) the first Victim returns 1 and
\* leaves size 5, the second returns 2.
C25_VictimChoice ==
    /\ [][(~bounded_scan /\ current_size_ > 0 /\ ClockVictimUnbounded) =>
            LET v == FirstClearReached
            IN  /\ clock_ret' = RetTrue(v)
                /\ pinned_' = [pinned_ EXCEPT ![v] = FALSE]
                /\ reference_bits_' =
                       [i \in DOMAIN reference_bits_ |->
                           reference_bits_[i] /\ i \notin PassedBefore(v) \cup {v}]
                /\ ~pinned_'[v] /\ ~reference_bits_'[v]
                /\ current_size_' = current_size_ - 1
                /\ clock_hand_' = (v + 1) % num_pages_]_vars
    /\ [](BasicAt(6) => current_size_ = 6)
    /\ [](BasicAt(7) => clock_ret = RetTrue(1) /\ current_size_ = 5)
    /\ [](BasicAt(9) => clock_ret = RetTrue(2))

\* C25's case: the basic scenario was run to its end.
C25_BasicScenarioCompleted == BasicAt(9)
====
